---- MODULE Spec2Model ----
(***************************************************************************)
(* DD-PPO / PPO training loop of habitat_baselines/rl/ppo/ppo_trainer.py:  *)
(* the rollout-collection / update cycle of PPOTrainer.train, the straggler *)
(* cutoff (should_end_early and the shared counter "num_done"), the         *)
(* preemption exit and the checkpoint writes of save_checkpoint.            *)
(*                                                                          *)
(* One process per distributed worker (rank); rank 0 is the only one that   *)
(* writes files and resets the counter.  sync_frac is kept as the exact     *)
(* fraction <<numerator, denominator>> and SHORT_ROLLOUT_THRESHOLD (0.25)   *)
(* as ThresholdNum / ThresholdDen, so every comparison of the code is done  *)
(* in integer arithmetic.                                                   *)
(*                                                                          *)
(* Spec is the training run of all workers; LiveSpec is the same run        *)
(* without preemption and crash, under weak fairness; ResumeSpec is one     *)
(* process across the segments of a requeued job (resume record saved,      *)
(* loaded and restored); BufferSpec is the collection / update cycle of one  *)
(* process followed through the rollout storage; EvalSpec is one call of    *)
(* _eval_checkpoint; ExtractSpec is one call of _extract_scalars_from_info  *)
(* on an info dictionary; RunSpec is one run of run.py, from main to the    *)
(* trainer's train() or eval().                                             *)
(***************************************************************************)
EXTENDS Integers, Sequences, FiniteSets

\* ------------------------------------------------------------------ bounds
MaxNumSteps == 5
MaxEnvs == 2
MaxUpdates == 3
total_num_steps == 20
MaxTime == 3
MaxRestarts == 2
MaxEpisodeLen == 3

\* PPOTrainer.SHORT_ROLLOUT_THRESHOLD = 0.25 = ThresholdNum / ThresholdDen
ThresholdNum == 1
ThresholdDen == 4

\* config.habitat_baselines.rl.preemption.save_resume_state_interval and
\* config.habitat_baselines.checkpoint_interval, in updates
reward_window_size == 2
num_checkpoints == 10
save_resume_state_interval == 2
checkpoint_interval == 2

\* ppo_cfg.gamma and ppo_cfg.tau (line 588), as whole numbers so that the
\* returns are computed exactly; compute_returns puts no limit on either.
gamma == 2
tau == 3

VARIABLES
    cfg,                \* the experiment configuration (fixed after Init)
    pc,                 \* pc[w]: position of worker w in train()
    step,               \* step[w]: loop variable of `for step in range(num_steps)`
    is_last_step,       \* is_last_step[w]: local of the rollout loop
    last_read,          \* last_read[w]: num_done as read by should_end_early
    inflight,           \* inflight[w][s]: submitted, uncollected steps of env slot s
    n_async,            \* n_async[w][s]: async_step_at calls of the current rollout
    n_wait,             \* n_wait[w][s]: wait_step_at calls of the current rollout
    protocol_ok,        \* protocol_ok[w]: so far no wait_step_at without a step in
                        \* flight and no async_step_at onto a step in flight
    step_idxs,          \* step_idxs[w][b]: rollouts.current_rollout_step_idxs
    inserts,            \* inserts[w]: the rollouts.insert calls of the current rollout
    count_steps_delta,  \* count_steps_delta[w]: local of train()
    num_steps_done,     \* num_steps_done[w]
    num_updates_done,   \* num_updates_done[w]
    EXIT,               \* EXIT[w]: the preemption flag of worker w's process
    log,                \* log[w]: what worker w has done in its current cycle
    num_done,           \* the shared counter num_rollouts_done_store["num_done"]
    contrib,            \* contrib[k]: increments of cycle k still counted in num_done
    arrived,            \* arrived[w]: collectives (barrier, all-reduce) w has entered
    ar_sum,             \* the sum the running all-reduce of count_steps_delta holds
    resume_file,        \* the resume-state file written by save_resume_state
    ckpt_files,         \* ckpt_files[i]: the file ckpt.i.pth
    latest,             \* the file latest.pth
    count_checkpoints,  \* count_checkpoints (local of train() on rank 0)
    \* the state of one process across the segments of a requeued job
    now,                \* time.time()
    t_start,            \* self.t_start
    prev_time,          \* prev_time (local of train())
    env_time,           \* self.env_time
    pth_time,           \* self.pth_time
    _last_checkpoint_percent,   \* self._last_checkpoint_percent, in steps
    running_episode_stats,      \* self.running_episode_stats["count"]
    window_episode_stats,       \* self.window_episode_stats["count"]
    resume_state,       \* resume_state (local of train())
    agent,              \* what the policy and optimizer state reflect
    loads,              \* load_resume_state calls of this train() invocation
    restarts,           \* times the job was started again
    percent_mode,       \* NUM_CHECKPOINTS != -1: checkpoints by percent done
    lr,                 \* the optimizer's learning rate, as base_lr * lr /
                        \* total_num_steps
    clip_param,         \* self.agent.clip_param, as ppo_cfg.clip_param *
                        \* clip_param / total_num_steps
    collected,          \* collected[k]: steps all workers collected in cycle k
    \* the rollout storage and the per-slot statistics of one process
    buffers,            \* self.rollouts.buffers: buffers[field][t][s]
    current_episode_reward,     \* self.current_episode_reward[s]
    episode_stats,      \* self.running_episode_stats["reward"][s], ["count"][s]
    env_state,          \* env_state[s]: the episode the env of slot s is in
    use_gae,            \* ppo_cfg.use_gae
    \* one _eval_checkpoint call
    eval_pc,            \* position in _eval_checkpoint
    eval_cfg,           \* the evaluation configuration
    eval_trace,         \* the calls made so far: checkpoint load, env
                        \* construction, reset, steps, close
    envs,               \* self.envs: the active environments, in slot order
    number_of_eval_episodes,    \* local of _eval_checkpoint
    test_recurrent_hidden_states,   \* the locals of _eval_checkpoint that hold
    not_done_masks,                 \* one entry per active slot
    eval_episode_reward,            \* (current_episode_reward of the eval loop)
    prev_actions,
    batch,
    rgb_frames,
    ep_eval_count,      \* ep_eval_count[k]: evaluations of episode k so far
    stats_episodes,     \* the keys of stats_episodes
    envs_to_pause,      \* local of the eval loop
    \* ---- one call of _extract_scalars_from_info
    extract_pc,         \* "called", "returned"
    info,               \* the argument: the entries of the dict, in order
    result,             \* the dict returned
    \* ---- one run of run.py
    run_pc,             \* position in main / run_exp / execute_exp
    argv,               \* the command line
    config,             \* the configuration get_config returns
    cuda_is_available,  \* torch.cuda.is_available()
    single_threaded,    \* torch.set_num_threads(1) was called
    run_trace           \* what the run has done so far, in order

rolloutVars == <<step, is_last_step, last_read, inflight, n_async, n_wait,
                 protocol_ok, step_idxs, inserts, count_steps_delta>>
counterVars == <<num_steps_done, num_updates_done>>
storeVars == <<num_done, contrib>>
collectiveVars == <<arrived, ar_sum>>
fileVars == <<resume_file, ckpt_files, latest, count_checkpoints>>

segmentVars == <<now, t_start, prev_time, env_time, pth_time,
                 _last_checkpoint_percent, running_episode_stats,
                 window_episode_stats, resume_state, agent, loads, restarts,
                 percent_mode, lr, clip_param>>

tallyVars == <<collected>>

storageVars == <<buffers, current_episode_reward, episode_stats, env_state,
                 use_gae>>

evalVars == <<eval_pc, eval_cfg, eval_trace, envs, number_of_eval_episodes,
              test_recurrent_hidden_states, not_done_masks, eval_episode_reward,
              prev_actions, batch, rgb_frames, ep_eval_count, stats_episodes,
              envs_to_pause>>

extractVars == <<extract_pc, info, result>>

runVars == <<run_pc, argv, config, cuda_is_available, single_threaded,
             run_trace>>

vars == <<cfg, pc, rolloutVars, counterVars, EXIT, log, storeVars, collectiveVars,
          fileVars, segmentVars, tallyVars, storageVars, evalVars, extractVars, runVars>>

\* ----------------------------------------------------------- configuration
\* world sizes: a single process, and two workers (ranks 0 and 1)
WorldSizes == {1, 2}

\* num_steps of the two-worker runs: a single step; ThresholdDen steps, where
\* num_steps * SHORT_ROLLOUT_THRESHOLD is a whole number of steps; MaxNumSteps
\* steps, where it falls between two steps.
RolloutLengths == {1, ThresholdDen, MaxNumSteps}

\* sync_frac values, as <<numerator, denominator>>
SyncFracs == {<<1, 2>>, <<1, 1>>}

\* The straggler protocol switched on in every run.
_is_distributed_always == TRUE

\* world_size > 1 makes the trainer distributed (line 97); with one process
\* force_distributed (lines 209-210) may still switch the protocol on.
\* The slots of a worker are its own: every slot count and every rollout
\* length is run by the single process; the two-worker runs use MaxEnvs slots
\* per worker and the rollout lengths of RolloutLengths.
Configs ==
    {c \in [num_steps : 1..MaxNumSteps,
            nbuffers : {1, 2},
            num_envs : 1..MaxEnvs,
            world_size : WorldSizes,
            force_distributed : BOOLEAN,
            sync_frac : SyncFracs] :
        c.world_size > 1 => /\ ~c.force_distributed
                            /\ c.num_envs = MaxEnvs
                            /\ c.num_steps \in RolloutLengths}

Workers == 0..(cfg.world_size - 1)
Slots == 0..(cfg.num_envs - 1)
Halves == 0..(cfg.nbuffers - 1)

_is_distributed == cfg.world_size > 1 \/ cfg.force_distributed

rank0_only(w) == w = 0

\* env_slice with the upper end of the slice taken inclusively: the halves
\* overlap in one slot.
env_slice_overlapping(b) ==
    {s \in Slots : (b * cfg.num_envs) \div cfg.nbuffers <= s
                   /\ s <= ((b + 1) * cfg.num_envs) \div cfg.nbuffers}

\* env_slice of _compute_actions_and_step_envs (lines 435-438):
\* slice(int(b * num_envs / nbuffers), int((b + 1) * num_envs / nbuffers))
env_slice(b) ==
    {s \in Slots : (b * cfg.num_envs) \div cfg.nbuffers <= s
                   /\ s < ((b + 1) * cfg.num_envs) \div cfg.nbuffers}

\* The collect slice with its start rounded up: with an odd number of slots
\* the middle slot belongs to neither half's collect range.
collect_env_slice_rounding_up(b) ==
    {s \in Slots : (b * cfg.num_envs + cfg.nbuffers - 1) \div cfg.nbuffers <= s
                   /\ s < ((b + 1) * cfg.num_envs) \div cfg.nbuffers}

\* env_slice of _collect_environment_result (lines 494-497), written out a
\* second time in the code.
collect_env_slice(b) ==
    {s \in Slots : (b * cfg.num_envs) \div cfg.nbuffers <= s
                   /\ s < ((b + 1) * cfg.num_envs) \div cfg.nbuffers}

\* ------------------------------------------------------------------ files
NoFile == [st |-> "absent", updates |-> 0, steps |-> 0]
PartialFile == [st |-> "partial", updates |-> 0, steps |-> 0]
Record(u, s) == [st |-> "complete", updates |-> u, steps |-> s]

\* load_resume_state returns None when there is no record.
None == [st |-> "none"]

\* The policy and optimizer state of a new agent: no update applied, no
\* transition consumed.
FreshAgent == [updates |-> 0, consumed |-> 0]

\* torch.save(obj, path) writes into the file at path itself: while the write
\* is under way the file holds part of the record.
torch_save_open(old) == PartialFile

\* -------------------------------------------------------------- helpers
\* A collective (barrier, all_reduce) returns on worker w once every worker
\* has entered it: no worker has entered fewer collectives than w.
CollectiveDone(w) == \A v \in Workers : arrived[v] >= arrived[w]

\* Worker w is the first to enter its next collective: the all-reduce starts
\* its sum from w's contribution.
FirstToEnter(w) == \A v \in Workers \ {w} : arrived[v] <= arrived[w]

\* BaseRLTrainer.is_done: the terminal condition of the training loop,
\* num_steps_done >= total_num_steps or num_updates_done >= total updates
\* (MaxUpdates).
is_done(w) ==
    num_steps_done[w] >= total_num_steps \/ num_updates_done[w] >= MaxUpdates

\* BaseRLTrainer._should_save_resume_state: the step cadence of the resume
\* state, (num_updates_done + 1) % save_resume_state_interval == 0.
_should_save_resume_state(w) ==
    (num_updates_done[w] + 1) % save_resume_state_interval = 0

\* BaseRLTrainer.should_checkpoint: the step cadence of the checkpoints,
\* num_updates_done % checkpoint_interval == 0.
should_checkpoint(w) == num_updates_done[w] % checkpoint_interval = 0

\* should_end_early without the SHORT_ROLLOUT_THRESHOLD test.
should_end_early_without_threshold(rollout_step, nd) ==
    IF ~_is_distributed THEN FALSE
    ELSE nd * cfg.sync_frac[2] >= cfg.sync_frac[1] * cfg.world_size

\* should_end_early without the sync_frac test.
should_end_early_without_quorum(rollout_step, nd) ==
    IF ~_is_distributed THEN FALSE
    ELSE rollout_step * ThresholdDen >= cfg.num_steps * ThresholdNum

\* should_end_early testing the threshold on the step before the last
\* collected one: the cutoff comes a check late.
should_end_early_a_check_late(rollout_step, nd) ==
    IF ~_is_distributed THEN FALSE
    ELSE /\ (rollout_step - 2) * ThresholdDen >= cfg.num_steps * ThresholdNum
         /\ nd * cfg.sync_frac[2] >= cfg.sync_frac[1] * cfg.world_size

\* PPOTrainer.should_end_early(rollout_step), given the value nd that
\* num_rollouts_done_store.get("num_done") returns.
should_end_early(rollout_step, nd) ==
    IF ~_is_distributed THEN FALSE
    ELSE /\ rollout_step * ThresholdDen >= cfg.num_steps * ThresholdNum
         /\ nd * cfg.sync_frac[2] >= cfg.sync_frac[1] * cfg.world_size

\* One more call counted for every slot of half b.
count_half(cnt, b) ==
    [s \in Slots |-> IF s \in env_slice(b) THEN cnt[s] + 1 ELSE cnt[s]]

\* advance_rollout moving the step index of every half.
advance_rollout_every_half(idxs, b) == [x \in DOMAIN idxs |-> idxs[x] + 1]

\* RolloutStorage.advance_rollout(b)
advance_rollout(idxs, b) == [idxs EXCEPT ![b] = @ + 1]

\* RolloutStorage.after_update(): every half's step index back to 0
after_update(idxs) == [b \in DOMAIN idxs |-> 0]

\* The rollout state of worker w, as one record r that the calls below
\* transform one after the other.
Rollout(w) ==
    [inflight |-> inflight[w], n_async |-> n_async[w], n_wait |-> n_wait[w],
     ok |-> protocol_ok[w], idxs |-> step_idxs[w], inserts |-> inserts[w],
     delta |-> count_steps_delta[w]]

\* One rollouts.insert call: its kind ("pre": actions, log-probabilities,
\* value estimates, next recurrent state; "post": next observations, rewards,
\* next masks), the half and the step index it writes at, and whether at that
\* moment every slot outside the half had a step in flight.
InsertCall(r, kind, b, slice) ==
    [kind |-> kind, half |-> b, t |-> r.idxs[b],
     others_in_flight |-> \A s \in Slots \ slice : r.inflight[s] = 1]

\* _compute_actions_and_step_envs(b): the policy inference for half b,
\* envs.async_step_at(s, act) for every slot s of half b (lines 468-480), and
\* the pre-step rollouts.insert (lines 484-490).
_compute_actions_and_step_envs(r, b) ==
    [r EXCEPT !.ok = @ /\ \A s \in env_slice(b) : r.inflight[s] = 0,
              !.inflight = [s \in Slots |-> IF s \in env_slice(b) THEN @[s] + 1
                                                                ELSE @[s]],
              !.n_async = count_half(@, b),
              !.inserts = Append(@, InsertCall(r, "pre", b, env_slice(b)))]

\* _collect_environment_result without the advance_rollout of line 560.
_collect_environment_result_without_advance(r, b) ==
    [r EXCEPT !.ok = @ /\ \A s \in collect_env_slice(b) : r.inflight[s] = 1,
              !.inflight = [s \in Slots |-> IF s \in collect_env_slice(b)
                                            THEN @[s] - 1 ELSE @[s]],
              !.n_wait = [s \in Slots |-> IF s \in collect_env_slice(b)
                                          THEN @[s] + 1 ELSE @[s]],
              !.inserts = Append(@, InsertCall(r, "post", b, collect_env_slice(b))),
              !.delta = @ + Cardinality(collect_env_slice(b))]

\* _collect_environment_result(b): envs.wait_step_at(s) for every slot s of
\* half b (lines 499-503), the post-step rollouts.insert (lines 553-558),
\* rollouts.advance_rollout(b) (line 560); returns the number of slots of the
\* half (line 564), which train() adds to count_steps_delta (line 828).
_collect_environment_result(r, b) ==
    [r EXCEPT !.ok = @ /\ \A s \in collect_env_slice(b) : r.inflight[s] = 1,
              !.inflight = [s \in Slots |-> IF s \in collect_env_slice(b)
                                            THEN @[s] - 1 ELSE @[s]],
              !.n_wait = [s \in Slots |-> IF s \in collect_env_slice(b)
                                          THEN @[s] + 1 ELSE @[s]],
              !.inserts = Append(@, InsertCall(r, "post", b, collect_env_slice(b))),
              !.idxs = advance_rollout(@, b),
              !.delta = @ + Cardinality(collect_env_slice(b))]

\* train(), lines 818-819: for buffer_index in range(nbuffers) from b on:
\* _compute_actions_and_step_envs(buffer_index)
RECURSIVE initial_submits(_, _)
initial_submits(r, b) ==
    IF b >= cfg.nbuffers THEN r
    ELSE initial_submits(_compute_actions_and_step_envs(r, b), b + 1)

\* The resubmission of line 835 without its `if not is_last_step` guard.
resubmits_on_last_step(last) == TRUE

\* train(), line 835: a half is resubmitted after its collection unless this
\* is the last step of the rollout.
resubmits(last) == ~last

\* The buffer loop resubmitting a half before it collects it.
RECURSIVE buffer_loop_submitting_first(_, _, _)
buffer_loop_submitting_first(r, b, last) ==
    IF b >= cfg.nbuffers THEN r
    ELSE LET c == IF resubmits(last) THEN _compute_actions_and_step_envs(r, b)
                                     ELSE r
         IN buffer_loop_submitting_first(_collect_environment_result(c, b),
                                         b + 1, last)

\* The buffer loop collecting every half before it resubmits any: no
\* inference runs while the other half is being simulated.
RECURSIVE collect_all(_, _)
collect_all(r, b) ==
    IF b >= cfg.nbuffers THEN r
    ELSE collect_all(_collect_environment_result(r, b), b + 1)

buffer_loop_collecting_all_first(r, b, last) ==
    IF resubmits(last) THEN initial_submits(collect_all(r, b), b)
                       ELSE collect_all(r, b)

\* The buffer loop with the `break` of line 844 inside it: on the last step
\* the loop is left after the first half.
RECURSIVE buffer_loop_breaking_inside(_, _, _)
buffer_loop_breaking_inside(r, b, last) ==
    IF b >= cfg.nbuffers THEN r
    ELSE LET c == _collect_environment_result(r, b)
         IN IF last THEN c
            ELSE buffer_loop_breaking_inside(_compute_actions_and_step_envs(c, b),
                                             b + 1, last)

\* train(), lines 827-841: for buffer_index in range(nbuffers) from b on:
\* collect the half, then resubmit it unless is_last_step.
RECURSIVE buffer_loop(_, _, _)
buffer_loop(r, b, last) ==
    IF b >= cfg.nbuffers THEN r
    ELSE LET c == _collect_environment_result(r, b)
         IN buffer_loop(IF resubmits(last) THEN _compute_actions_and_step_envs(c, b)
                                           ELSE c,
                        b + 1, last)

Terminal == {"returned", "finished", "crashed"}

\* ------------------------------------------------- environments, policy
\* The env of a slot: the length of the episode it is in and the steps taken
\* in it. Episodes of a slot differ in length: the next episode is one step
\* longer, and after MaxEpisodeLen steps it is a single step.
Episode(len) == [len |-> len, t |-> 0]

\* The observation an env in state e shows.
observation(e) == <<e.len, e.t>>

\* envs.wait_step_at(s) (lines 499-503): the reward of the step, whether it
\* ended the episode, and the env after it (an env that ended its episode has
\* begun the next one and shows its first observation).
env_step(e) ==
    LET done == e.t + 1 >= e.len
    IN [reward |-> e.len + e.t,
        done |-> done,
        env |-> IF done THEN Episode((e.len % MaxEpisodeLen) + 1)
                        ELSE [e EXCEPT !.t = @ + 1]]

\* The policy, opaque to the trainer: the critic's value of an observation
\* and recurrent state, and the next recurrent state, which starts anew
\* where the mask is 0.
get_value(obs, hidden, mask) == obs[1] + obs[2] + (IF mask THEN hidden ELSE 0)
next_hidden(obs, hidden, mask) == (IF mask THEN hidden ELSE 0) + 1

\* --------------------------------------------------------- rollout storage
Steps == 0..cfg.num_steps

\* A buffer field filled with v.
Filled(v) == [t \in Steps |-> [s \in Slots |-> v]]

\* v written for the slots of slice at step t of field f.
Put(f, t, slice, v) ==
    [f EXCEPT ![t] = [s \in Slots |-> IF s \in slice THEN v[s] ELSE @[s]]]

\* RolloutStorage(num_steps, num_envs, ...), lines 308-318: num_steps + 1
\* steps of every field; mask0 is what the constructor fills the masks with.
RolloutStorage(mask0) ==
    [observations |-> Filled(<<0, 0>>),
     recurrent_hidden_states |-> Filled(0),
     masks |-> Filled(mask0),
     rewards |-> Filled(0),
     value_preds |-> Filled(0),
     returns |-> Filled(0)]

\* rollouts.insert of the pre-step fields (lines 484-490): the value
\* estimates at the current step, the next recurrent state at the step after.
insert_pre(bufs, idx, slice, values, hidden) ==
    [bufs EXCEPT !.value_preds = Put(@, idx, slice, values),
                 !.recurrent_hidden_states = Put(@, idx + 1, slice, hidden)]

\* insert of the post-step fields writing the mask of the step into the
\* current step.
insert_post_mask_at_current(bufs, idx, slice, obs, rewards, masks) ==
    [bufs EXCEPT !.rewards = Put(@, idx, slice, rewards),
                 !.observations = Put(@, idx + 1, slice, obs),
                 !.masks = Put(@, idx, slice, masks)]

\* rollouts.insert of the post-step fields (lines 553-558): the rewards at
\* the current step, the next observations and next masks at the step after.
insert_post(bufs, idx, slice, obs, rewards, masks) ==
    [bufs EXCEPT !.rewards = Put(@, idx, slice, rewards),
                 !.observations = Put(@, idx + 1, slice, obs),
                 !.masks = Put(@, idx + 1, slice, masks)]

Mask(m) == IF m THEN 1 ELSE 0

\* return[t] = reward[t] + gamma * mask[t+1] * return[t+1], return[T] = nv
RECURSIVE discounted_return(_, _, _, _, _, _)
discounted_return(rewards, masks, T, nv, s, t) ==
    IF t >= T THEN nv[s]
    ELSE rewards[t][s]
         + gamma * Mask(masks[t + 1][s])
                 * discounted_return(rewards, masks, T, nv, s, t + 1)

\* advantage[t] = delta[t] + gamma * tau * mask[t+1] * advantage[t+1], with
\* delta[t] = reward[t] + gamma * mask[t+1] * value[t+1] - value[t]
RECURSIVE advantage(_, _, _, _, _, _)
advantage(rewards, values, masks, T, s, t) ==
    IF t >= T THEN 0
    ELSE rewards[t][s] + gamma * Mask(masks[t + 1][s]) * values[t + 1][s]
         - values[t][s]
         + gamma * tau * Mask(masks[t + 1][s])
                 * advantage(rewards, values, masks, T, s, t + 1)

\* The returns of a rollout of T steps, given the masks to gate them with.
returns_with(bufs, masks, T, next_value, gae) ==
    IF gae
    THEN LET values == [bufs.value_preds EXCEPT ![T] = next_value]
         IN [bufs EXCEPT
                !.value_preds = values,
                !.returns = [t \in Steps |->
                    IF t < T
                    THEN [s \in Slots |->
                            advantage(bufs.rewards, values, masks, T, s, t)
                            + values[t][s]]
                    ELSE @[t]]]
    ELSE [bufs EXCEPT
            !.returns = [t \in Steps |->
                IF t <= T
                THEN [s \in Slots |->
                        discounted_return(bufs.rewards, masks, T, next_value, s, t)]
                ELSE @[t]]]

\* compute_returns with every mask taken as 1: the return runs on through
\* the end of an episode.
compute_returns_ignoring_masks(bufs, T, next_value, gae) ==
    returns_with(bufs, Filled(TRUE), T, next_value, gae)

\* RolloutStorage.compute_returns(next_value, use_gae, gamma, tau), called at
\* lines 587-589, for a rollout of T steps.
compute_returns(bufs, T, next_value, gae) ==
    returns_with(bufs, bufs.masks, T, next_value, gae)

\* after_update that starts the next rollout from an empty step 0.
rotate_clearing(bufs, T) ==
    [bufs EXCEPT !.observations[0] = [s \in Slots |-> <<0, 0>>],
                 !.recurrent_hidden_states[0] = [s \in Slots |-> 0],
                 !.masks[0] = [s \in Slots |-> FALSE]]

\* RolloutStorage.after_update(), the buffers: the last recorded observation,
\* mask and recurrent state become those of step 0.
rotate(bufs, T) ==
    [bufs EXCEPT !.observations[0] = bufs.observations[T],
                 !.recurrent_hidden_states[0] = bufs.recurrent_hidden_states[T],
                 !.masks[0] = bufs.masks[T]]

\* The storage and statistics of the process, as one record r that the calls
\* below transform one after the other.
Storage ==
    [buffers |-> buffers, idxs |-> step_idxs[0], env |-> env_state,
     reward |-> current_episode_reward, stats |-> episode_stats]

\* _compute_actions_and_step_envs(b), what it reads and stores: the policy
\* acts on the current step of half b (lines 441-456), the pre-step
\* rollouts.insert records its outputs (lines 484-490).
act_and_insert(r, b) ==
    LET idx == r.idxs[b]
        val == [s \in Slots |-> get_value(r.buffers.observations[idx][s],
                                          r.buffers.recurrent_hidden_states[idx][s],
                                          r.buffers.masks[idx][s])]
        hid == [s \in Slots |-> next_hidden(r.buffers.observations[idx][s],
                                            r.buffers.recurrent_hidden_states[idx][s],
                                            r.buffers.masks[idx][s])]
    IN [r EXCEPT !.buffers = insert_pre(@, idx, env_slice(b), val, hid)]

\* The statistics of lines 529-532 and 545 with the accumulator zeroed before
\* the finished episode's reward is added to the running statistics.
episode_statistics_zeroing_first(r, slice, out) ==
    LET acc == [s \in Slots |-> IF s \in slice
                                THEN IF out[s].done THEN 0
                                     ELSE r.reward[s] + out[s].reward
                                ELSE r.reward[s]]
    IN [r EXCEPT
          !.stats = [reward |-> [s \in Slots |->
                                    IF s \in slice /\ out[s].done
                                    THEN @.reward[s] + acc[s] ELSE @.reward[s]],
                     count |-> [s \in Slots |->
                                    IF s \in slice /\ out[s].done
                                    THEN @.count[s] + 1 ELSE @.count[s]]],
          !.reward = acc]

\* Lines 529-532 and 545: current_episode_reward[env_slice] += rewards; the
\* running statistics take the accumulated reward and a count of one where
\* done; current_episode_reward[env_slice].masked_fill_(done_masks, 0.0).
episode_statistics(r, slice, out) ==
    LET acc == [s \in Slots |-> IF s \in slice THEN r.reward[s] + out[s].reward
                                               ELSE r.reward[s]]
    IN [r EXCEPT
          !.stats = [reward |-> [s \in Slots |->
                                    IF s \in slice /\ out[s].done
                                    THEN @.reward[s] + acc[s] ELSE @.reward[s]],
                     count |-> [s \in Slots |->
                                    IF s \in slice /\ out[s].done
                                    THEN @.count[s] + 1 ELSE @.count[s]]],
          !.reward = [s \in Slots |-> IF s \in slice /\ out[s].done THEN 0
                                                                    ELSE acc[s]]]

\* _collect_environment_result(b), what it reads and stores: the outputs of
\* the envs of half b (lines 499-508), not_done_masks = [[not done]] (lines
\* 522-527), the statistics (lines 529-545), the post-step rollouts.insert
\* (lines 553-558) and advance_rollout (line 560).
collect_and_insert(r, b) ==
    LET slice == collect_env_slice(b)
        idx == r.idxs[b]
        out == [s \in Slots |-> env_step(r.env[s])]
        st == episode_statistics(r, slice, out)
    IN [st EXCEPT
          !.env = [s \in Slots |-> IF s \in slice THEN out[s].env ELSE @[s]],
          !.buffers = insert_post(@, idx, slice,
                                  [s \in Slots |-> observation(out[s].env)],
                                  [s \in Slots |-> out[s].reward],
                                  [s \in Slots |-> ~out[s].done]),
          !.idxs = advance_rollout(@, b)]

\* train(), lines 818-819, on the storage.
RECURSIVE storage_initial_submits(_, _)
storage_initial_submits(r, b) ==
    IF b >= cfg.nbuffers THEN r
    ELSE storage_initial_submits(act_and_insert(r, b), b + 1)

\* train(), lines 827-841, on the storage: collect the half, then let the
\* policy act on it again unless is_last_step.
RECURSIVE storage_buffer_loop(_, _, _)
storage_buffer_loop(r, b, last) ==
    IF b >= cfg.nbuffers THEN r
    ELSE LET c == collect_and_insert(r, b)
         IN storage_buffer_loop(IF resubmits(last) THEN act_and_insert(c, b) ELSE c,
                                b + 1, last)

\* ------------------------------------------------------------------ Init
TrainerInit ==
    /\ cfg \in Configs
    /\ pc = [w \in Workers |-> "init"]
    /\ step = [w \in Workers |-> 0]
    /\ is_last_step = [w \in Workers |-> FALSE]
    /\ last_read = [w \in Workers |-> 0]
    /\ inflight = [w \in Workers |-> [s \in Slots |-> 0]]
    /\ n_async = [w \in Workers |-> [s \in Slots |-> 0]]
    /\ n_wait = [w \in Workers |-> [s \in Slots |-> 0]]
    /\ protocol_ok = [w \in Workers |-> TRUE]
    /\ step_idxs = [w \in Workers |-> [b \in Halves |-> 0]]
    /\ inserts = [w \in Workers |-> <<>>]
    /\ count_steps_delta = [w \in Workers |-> 0]
    /\ num_steps_done = [w \in Workers |-> 0]
    /\ num_updates_done = [w \in Workers |-> 0]
    /\ EXIT = [w \in Workers |-> FALSE]
    /\ log = [w \in Workers |-> <<>>]
    /\ num_done = 0
    /\ contrib = [k \in 0..(MaxUpdates - 1) |-> 0]
    /\ arrived = [w \in Workers |-> 0]
    /\ ar_sum = 0
    /\ resume_file = NoFile
    /\ ckpt_files = [i \in 0..(MaxUpdates - 1) |-> NoFile]
    /\ latest = NoFile
    /\ count_checkpoints = 0
    /\ collected = [k \in 0..(MaxUpdates - 1) |-> 0]

\* A process before train() has run: the counters of BaseRLTrainer.__init__
\* (_last_checkpoint_percent = -1.0, here in steps) and nothing loaded.
SegmentInit ==
    /\ now = 0
    /\ t_start = 0
    /\ prev_time = 0
    /\ env_time = 0
    /\ pth_time = 0
    /\ _last_checkpoint_percent = 0 - total_num_steps
    /\ running_episode_stats = 0
    /\ window_episode_stats = <<>>
    /\ resume_state = None
    /\ agent = FreshAgent
    /\ loads = 0
    /\ restarts = 0
    /\ lr = total_num_steps
    /\ clip_param = total_num_steps

\* The storage before _init_train has filled it, and the envs: which
\* episode each slot's env begins with, what the RolloutStorage constructor
\* fills the masks with, and ppo_cfg.use_gae.
StorageInit ==
    /\ \E mask0 \in BOOLEAN : buffers = RolloutStorage(mask0)
    /\ current_episode_reward = [s \in Slots |-> 0]
    /\ episode_stats = [reward |-> [s \in Slots |-> 0],
                        count |-> [s \in Slots |-> 0]]
    /\ env_state \in [Slots -> {Episode(len) : len \in 1..MaxEpisodeLen}]
    /\ use_gae \in BOOLEAN

\* A run in which the storage is not looked at: one choice of the above.
StorageIdle ==
    /\ StorageInit
    /\ buffers = RolloutStorage(FALSE)
    /\ env_state = [s \in Slots |-> Episode(1)]
    /\ use_gae

\* The evaluation configurations: distributed or not, should_load_ckpt,
\* test_episode_count (-1: all episodes of the dataset), the number of
\* environments and the number of episodes of each environment's split;
\* first_len fixes how many steps the episodes of the dataset take.
EvalConfigs ==
    UNION {[is_distributed : BOOLEAN,
            should_load_ckpt : BOOLEAN,
            test_episode_count : (0 - 1)..(MaxEnvs + 1),
            first_len : 1..MaxEpisodeLen,
            num_environments : {n},
            number_of_episodes : [1..n -> 1..2]] : n \in 1..MaxEnvs}

\* Before _eval_checkpoint is called: nothing done, no locals yet.
EvalInit ==
    /\ eval_pc = "start"
    /\ eval_cfg \in EvalConfigs
    /\ eval_trace = <<>>
    /\ envs = <<>>
    /\ number_of_eval_episodes = 0
    /\ test_recurrent_hidden_states = <<>>
    /\ not_done_masks = <<>>
    /\ eval_episode_reward = <<>>
    /\ prev_actions = <<>>
    /\ batch = <<>>
    /\ rgb_frames = <<>>
    /\ ep_eval_count = <<>>
    /\ stats_episodes = {}
    /\ envs_to_pause = {}

\* A run in which nothing is evaluated: one evaluation configuration.
EvalIdle ==
    /\ EvalInit
    /\ eval_cfg = [is_distributed |-> FALSE, should_load_ckpt |-> TRUE,
                   test_episode_count |-> 0 - 1, first_len |-> 1,
                   num_environments |-> 1,
                   number_of_episodes |-> <<1>>]

\* ---- info dictionaries
\* The nesting of the info dictionaries and the entries of the outer one.
MaxDepth == 3
MaxKeys == 2

\* METRICS_BLACKLIST
METRICS_BLACKLIST == {"top_down_map", "collisions.is_collision"}

\* The keys of the dictionaries: strings, among them the blacklisted names
\* and their parts, and a key that is not a string (the integer 0).
KeyNames == {"top_down_map", "collisions", "is_collision",
             "collisions.is_collision"}
Keys == {[is_str |-> TRUE, name |-> n] : n \in KeyNames}
            \cup {[is_str |-> FALSE, name |-> "0"]}

\* The values that are no dictionaries: a number, a string, a list of two
\* numbers; size is their np.size.
Leaves == {[type |-> "float", size |-> 1, val |-> 2, items |-> <<>>],
           [type |-> "str", size |-> 1, val |-> 0, items |-> <<>>],
           [type |-> "list", size |-> 2, val |-> 0, items |-> <<>>]}

\* A dictionary: its entries [k, v] in the order of items().
Dict(items) == [type |-> "dict", size |-> Len(items), val |-> 0, items |-> items]

\* The values nested at most d dictionaries deep; a nested dictionary has at
\* most one entry.
RECURSIVE Nested(_)
Nested(d) ==
    IF d = 0 THEN Leaves
    ELSE Leaves \cup {Dict(<<>>)}
            \cup {Dict(<<[k |-> k, v |-> v]>>) : k \in Keys, v \in Nested(d - 1)}

\* The info dictionaries nested at most depth deep: at most keys entries
\* with distinct keys.
Infos(depth, keys) ==
    LET Entries == {[k |-> k, v |-> v] : k \in Keys, v \in Nested(depth - 1)}
    IN {s \in UNION {[1..n -> Entries] : n \in 0..keys} :
            \A i, j \in DOMAIN s : s[i].k = s[j].k => i = j}

ExtractInit ==
    /\ extract_pc = "called"
    /\ result = <<>>

\* A run in which no info dictionary is flattened.
ExtractIdle ==
    /\ ExtractInit
    /\ info = <<>>

\* ---- run.py
\* The values of --run-type on the command line: the two choices of
\* build_parser (line 28) and one that is none of them.
RunTypes == {"train", "eval", "test"}

\* The trainers registered by ppo_trainer.py (lines 70-71).
RegisteredTrainers == {"ppo", "ddppo"}

\* The values of habitat_baselines.trainer_name: registered names and names
\* no trainer is registered under.
TrainerNames == RegisteredTrainers \cup {"dqn", "PPO"}

RunInit ==
    /\ run_pc = "main"
    /\ single_threaded = FALSE
    /\ run_trace = <<>>

\* A run in which run.py is not started.
RunIdle ==
    /\ RunInit
    /\ argv = [run_type |-> "train"]
    /\ config = [trainer_name |-> "ppo", force_torch_single_threaded |-> FALSE]
    /\ cuda_is_available = FALSE

Init ==
    /\ TrainerInit
    /\ SegmentInit
    /\ percent_mode = FALSE
    /\ StorageIdle
    /\ EvalIdle
    /\ ExtractIdle
    /\ RunIdle

\* --------------------------------------------------------------- actions
\* _init_train: every distributed worker sets num_done to "0" (line 240),
\* the envs are reset (line 321); train() then enters the barrier (line 737).
InitTrain(w) ==
    /\ pc[w] = "init"
    /\ IF _is_distributed
       THEN /\ num_done' = 0
            /\ contrib' = [k \in DOMAIN contrib |-> 0]
            /\ arrived' = [arrived EXCEPT ![w] = @ + 1]
            /\ pc' = [pc EXCEPT ![w] = "barrier"]
       ELSE /\ pc' = [pc EXCEPT ![w] = "top"]
            /\ UNCHANGED <<num_done, contrib, arrived>>
    /\ inflight' = [inflight EXCEPT ![w] = [s \in Slots |-> 0]]
    /\ UNCHANGED <<segmentVars, tallyVars, storageVars, evalVars, extractVars, runVars, cfg, step, is_last_step, last_read, n_async, n_wait, protocol_ok,
                   step_idxs, inserts, count_steps_delta, counterVars, EXIT, log,
                   ar_sum, fileVars>>

\* torch.distributed.barrier() returns (line 737).
Barrier(w) ==
    /\ pc[w] = "barrier"
    /\ CollectiveDone(w)
    /\ pc' = [pc EXCEPT ![w] = "top"]
    /\ UNCHANGED <<segmentVars, tallyVars, storageVars, evalVars, extractVars, runVars, cfg, rolloutVars, counterVars, EXIT, log, storeVars,
                   collectiveVars, fileVars>>

\* The top of a cycle with the EXIT test placed before the save: a worker whose
\* flag is set skips the resume state.
CycleTop_exit_before_save(w) ==
    /\ pc[w] = "top"
    /\ ~is_done(w)
    /\ IF rank0_only(w) /\ _should_save_resume_state(w) /\ ~EXIT[w]
         THEN /\ resume_file' = Record(num_updates_done[w], num_steps_done[w])
              /\ log' = [log EXCEPT ![w] = <<"save">>]
         ELSE /\ log' = [log EXCEPT ![w] = <<>>]
              /\ UNCHANGED resume_file
    /\ pc' = [pc EXCEPT ![w] = "exit"]
    /\ UNCHANGED <<segmentVars, tallyVars, storageVars, evalVars, extractVars, runVars, cfg, rolloutVars, counterVars, EXIT, storeVars, collectiveVars,
                   ckpt_files, latest, count_checkpoints>>

\* Top of a cycle, lines 771-802: the loop condition holds, and rank 0 saves the
\* resume state when _should_save_resume_state() says it is due.
CycleTop(w) ==
    /\ pc[w] = "top"
    /\ ~is_done(w)
    /\ IF rank0_only(w) /\ _should_save_resume_state(w)
         THEN /\ resume_file' = Record(num_updates_done[w], num_steps_done[w])
              /\ log' = [log EXCEPT ![w] = <<"save">>]
         ELSE /\ log' = [log EXCEPT ![w] = <<>>]
              /\ UNCHANGED resume_file
    /\ pc' = [pc EXCEPT ![w] = "exit"]
    /\ UNCHANGED <<segmentVars, tallyVars, storageVars, evalVars, extractVars, runVars, cfg, rolloutVars, counterVars, EXIT, storeVars, collectiveVars,
                   ckpt_files, latest, count_checkpoints>>

\* The loop condition fails: self.envs.close() (line 877) and train() returns.
LoopExit(w) ==
    /\ pc[w] = "top"
    /\ is_done(w)
    /\ pc' = [pc EXCEPT ![w] = "finished"]
    /\ log' = [log EXCEPT ![w] = <<"close">>]
    /\ UNCHANGED <<segmentVars, tallyVars, storageVars, evalVars, extractVars, runVars, cfg, rolloutVars, counterVars, EXIT, storeVars, collectiveVars,
                   fileVars>>

\* if EXIT.is_set() (line 804).
CheckExit(w) ==
    /\ pc[w] = "exit"
    /\ log' = [log EXCEPT ![w] = Append(@, "exit_check")]
    /\ pc' = [pc EXCEPT ![w] = IF EXIT[w] THEN "close_preempt" ELSE "begin"]
    /\ UNCHANGED <<segmentVars, tallyVars, storageVars, evalVars, extractVars, runVars, cfg, rolloutVars, counterVars, EXIT, storeVars, collectiveVars,
                   fileVars>>

\* self.envs.close() of the preemption exit (line 807).
ClosePreempted(w) ==
    /\ pc[w] = "close_preempt"
    /\ pc' = [pc EXCEPT ![w] = "requeue"]
    /\ log' = [log EXCEPT ![w] = Append(@, "close")]
    /\ UNCHANGED <<segmentVars, tallyVars, storageVars, evalVars, extractVars, runVars, cfg, rolloutVars, counterVars, EXIT, storeVars, collectiveVars,
                   fileVars>>

\* requeue_job(); return (lines 809-811).
RequeueJob(w) ==
    /\ pc[w] = "requeue"
    /\ pc' = [pc EXCEPT ![w] = "returned"]
    /\ log' = [log EXCEPT ![w] = Append(@, "requeue")]
    /\ UNCHANGED <<segmentVars, tallyVars, storageVars, evalVars, extractVars, runVars, cfg, rolloutVars, counterVars, EXIT, storeVars, collectiveVars,
                   fileVars>>

\* Lines 813-819: count_steps_delta = 0 and the initial submissions, one
\* _compute_actions_and_step_envs(buffer_index) per buffer half.
BeginRollout(w) ==
    /\ pc[w] = "begin"
    /\ \E r \in {initial_submits([Rollout(w) EXCEPT !.delta = 0,
                                                      !.n_async = [s \in Slots |-> 0],
                                                      !.n_wait = [s \in Slots |-> 0],
                                                      !.inserts = <<>>],
                                    0)} :
       /\ inflight' = [inflight EXCEPT ![w] = r.inflight]
       /\ inserts' = [inserts EXCEPT ![w] = r.inserts]
       /\ n_async' = [n_async EXCEPT ![w] = r.n_async]
       /\ n_wait' = [n_wait EXCEPT ![w] = r.n_wait]
       /\ protocol_ok' = [protocol_ok EXCEPT ![w] = r.ok]
       /\ count_steps_delta' = [count_steps_delta EXCEPT ![w] = r.delta]
    /\ step' = [step EXCEPT ![w] = 0]
    /\ is_last_step' = [is_last_step EXCEPT ![w] = FALSE]
    /\ log' = [log EXCEPT ![w] = Append(@, "collect")]
    /\ pc' = [pc EXCEPT ![w] = "rollout"]
    /\ UNCHANGED <<segmentVars, tallyVars, storageVars, evalVars, extractVars, runVars, cfg, last_read, step_idxs, counterVars, EXIT, storeVars,
                   collectiveVars, fileVars>>

\* The rollout loop with a test of EXIT at every step: a set flag makes the
\* worker leave for the preemption exit with the submitted steps in flight.
RolloutStep_polling_exit(w) ==
    /\ pc[w] = "rollout"
    /\ IF EXIT[w]
       THEN /\ pc' = [pc EXCEPT ![w] = "close_preempt"]
            /\ UNCHANGED <<rolloutVars, collected>>
       ELSE
       \E last \in {should_end_early(step[w] + 1, num_done)
                       \/ step[w] + 1 = cfg.num_steps} :
       \E r \in {buffer_loop(Rollout(w), 0, last)} :
       /\ is_last_step' = [is_last_step EXCEPT ![w] = last]
       /\ inflight' = [inflight EXCEPT ![w] = r.inflight]
       /\ n_async' = [n_async EXCEPT ![w] = r.n_async]
       /\ n_wait' = [n_wait EXCEPT ![w] = r.n_wait]
       /\ protocol_ok' = [protocol_ok EXCEPT ![w] = r.ok]
       /\ step_idxs' = [step_idxs EXCEPT ![w] = r.idxs]
       /\ inserts' = [inserts EXCEPT ![w] = r.inserts]
       /\ count_steps_delta' = [count_steps_delta EXCEPT ![w] = r.delta]
       /\ IF last THEN /\ pc' = [pc EXCEPT ![w] = "add"]
                       /\ collected' = [collected EXCEPT
                                           ![num_updates_done[w]] = @ + r.delta]
                       /\ UNCHANGED step
                  ELSE /\ step' = [step EXCEPT ![w] = @ + 1]
                       /\ UNCHANGED <<pc, collected>>
       /\ last_read' = [last_read EXCEPT ![w] = IF _is_distributed THEN num_done ELSE @]
    /\ UNCHANGED <<segmentVars, storageVars, evalVars, extractVars, runVars, cfg, counterVars, EXIT, log, storeVars,
                   collectiveVars, fileVars>>

\* One iteration of `for step in range(num_steps)`, lines 821-844:
\* is_last_step = should_end_early(step + 1) or (step + 1) == num_steps, where
\* should_end_early reads num_done from the store; then the buffer loop; then
\* break if is_last_step.
RolloutStep(w) ==
    /\ pc[w] = "rollout"
    /\ \E last \in {should_end_early(step[w] + 1, num_done)
                       \/ step[w] + 1 = cfg.num_steps} :
       \E r \in {buffer_loop(Rollout(w), 0, last)} :
       /\ is_last_step' = [is_last_step EXCEPT ![w] = last]
       /\ inflight' = [inflight EXCEPT ![w] = r.inflight]
       /\ n_async' = [n_async EXCEPT ![w] = r.n_async]
       /\ n_wait' = [n_wait EXCEPT ![w] = r.n_wait]
       /\ protocol_ok' = [protocol_ok EXCEPT ![w] = r.ok]
       /\ step_idxs' = [step_idxs EXCEPT ![w] = r.idxs]
       /\ inserts' = [inserts EXCEPT ![w] = r.inserts]
       /\ count_steps_delta' = [count_steps_delta EXCEPT ![w] = r.delta]
       /\ IF last THEN /\ pc' = [pc EXCEPT ![w] = "add"]
                       /\ collected' = [collected EXCEPT
                                           ![num_updates_done[w]] = @ + r.delta]
                       /\ UNCHANGED step
                  ELSE /\ step' = [step EXCEPT ![w] = @ + 1]
                       /\ UNCHANGED <<pc, collected>>
    /\ last_read' = [last_read EXCEPT ![w] = IF _is_distributed THEN num_done ELSE @]
    /\ UNCHANGED <<segmentVars, storageVars, evalVars, extractVars, runVars, cfg, counterVars, EXIT, log, storeVars,
                   collectiveVars, fileVars>>

\* The increment of lines 848-849 made only after a rollout that ran to
\* num_steps: a rollout ended by the cutoff leaves num_done alone.
AddNumDone_only_after_full_rollout(w) ==
    /\ pc[w] = "add"
    /\ IF _is_distributed /\ step[w] + 1 = cfg.num_steps
       THEN /\ num_done' = num_done + 1
            /\ contrib' = [contrib EXCEPT ![num_updates_done[w]] = @ + 1]
            /\ log' = [log EXCEPT ![w] = Append(@, "add")]
       ELSE UNCHANGED <<num_done, contrib, log>>
    /\ pc' = [pc EXCEPT ![w] = "update"]
    /\ UNCHANGED <<segmentVars, tallyVars, storageVars, evalVars, extractVars, runVars, cfg, rolloutVars, counterVars, EXIT, collectiveVars, fileVars>>

\* Lines 848-849: num_rollouts_done_store.add("num_done", 1).
AddNumDone(w) ==
    /\ pc[w] = "add"
    /\ IF _is_distributed
       THEN /\ num_done' = num_done + 1
            /\ contrib' = [contrib EXCEPT ![num_updates_done[w]] = @ + 1]
            /\ log' = [log EXCEPT ![w] = Append(@, "add")]
       ELSE UNCHANGED <<num_done, contrib, log>>
    /\ pc' = [pc EXCEPT ![w] = "update"]
    /\ UNCHANGED <<segmentVars, tallyVars, storageVars, evalVars, extractVars, runVars, cfg, rolloutVars, counterVars, EXIT, collectiveVars, fileVars>>

\* The update without the num_updates_done += 1 of line 856.
UpdateAgent_without_count(w) ==
    /\ pc[w] = "update"
    /\ step_idxs' = [step_idxs EXCEPT ![w] = after_update(@)]
    /\ log' = [log EXCEPT ![w] = Append(@, "update")]
    /\ arrived' = [arrived EXCEPT ![w] = IF _is_distributed THEN @ + 1 ELSE @]
    /\ pc' = [pc EXCEPT ![w] = "ar_stats"]
    /\ step' = [step EXCEPT ![w] = 0]
    /\ is_last_step' = [is_last_step EXCEPT ![w] = FALSE]
    /\ last_read' = [last_read EXCEPT ![w] = 0]
    /\ n_async' = [n_async EXCEPT ![w] = [s \in Slots |-> 0]]
    /\ n_wait' = [n_wait EXCEPT ![w] = [s \in Slots |-> 0]]
    /\ inserts' = [inserts EXCEPT ![w] = <<>>]
    /\ UNCHANGED <<segmentVars, tallyVars, storageVars, evalVars, extractVars, runVars, cfg, inflight, protocol_ok, count_steps_delta, counterVars,
                   EXIT, storeVars, ar_sum, fileVars>>

\* Lines 851-856: _update_agent() (compute_returns, agent.update,
\* rollouts.after_update), lr_scheduler.step(), num_updates_done += 1; then
\* _coalesce_post_step enters the all-reduce of the statistics (line 607).
\* The locals of the finished rollout loop (step, is_last_step) and the
\* per-rollout records (last_read, n_async, n_wait, inserts) are dead from here on and
\* are cleared.
UpdateAgent(w) ==
    /\ pc[w] = "update"
    /\ step_idxs' = [step_idxs EXCEPT ![w] = after_update(@)]
    /\ num_updates_done' = [num_updates_done EXCEPT ![w] = @ + 1]
    /\ log' = [log EXCEPT ![w] = Append(@, "update")]
    /\ arrived' = [arrived EXCEPT ![w] = IF _is_distributed THEN @ + 1 ELSE @]
    /\ pc' = [pc EXCEPT ![w] = "ar_stats"]
    /\ step' = [step EXCEPT ![w] = 0]
    /\ is_last_step' = [is_last_step EXCEPT ![w] = FALSE]
    /\ last_read' = [last_read EXCEPT ![w] = 0]
    /\ n_async' = [n_async EXCEPT ![w] = [s \in Slots |-> 0]]
    /\ n_wait' = [n_wait EXCEPT ![w] = [s \in Slots |-> 0]]
    /\ inserts' = [inserts EXCEPT ![w] = <<>>]
    /\ UNCHANGED <<segmentVars, tallyVars, storageVars, evalVars, extractVars, runVars, cfg, inflight, protocol_ok, count_steps_delta, num_steps_done,
                   EXIT, storeVars, ar_sum, fileVars>>

\* _coalesce_post_step, lines 607-619: the all-reduce of the episode statistics
\* returns; a distributed worker then enters the all-reduce of the losses and
\* of count_steps_delta.
StatsReduced(w) ==
    /\ pc[w] = "ar_stats"
    /\ CollectiveDone(w)
    /\ IF _is_distributed
       THEN /\ ar_sum' = IF FirstToEnter(w) THEN count_steps_delta[w]
                                             ELSE ar_sum + count_steps_delta[w]
            /\ arrived' = [arrived EXCEPT ![w] = @ + 1]
            /\ pc' = [pc EXCEPT ![w] = "ar_loss"]
       ELSE /\ pc' = [pc EXCEPT ![w] = "post"]
            /\ UNCHANGED <<ar_sum, arrived>>
    /\ UNCHANGED <<segmentVars, tallyVars, storageVars, evalVars, extractVars, runVars, cfg, rolloutVars, counterVars, EXIT, log, storeVars, fileVars>>

\* The second all-reduce with the step count divided by the world size along
\* with the losses.
LossReduced_dividing_steps(w) ==
    /\ pc[w] = "ar_loss"
    /\ CollectiveDone(w)
    /\ count_steps_delta' =
           [count_steps_delta EXCEPT ![w] = ar_sum \div cfg.world_size]
    /\ pc' = [pc EXCEPT ![w] = "post"]
    /\ UNCHANGED <<segmentVars, tallyVars, storageVars, evalVars, extractVars, runVars, cfg, step, is_last_step, last_read,
                   inflight, n_async, n_wait, protocol_ok, step_idxs, inserts,
                   counterVars, EXIT, log, storeVars, collectiveVars, fileVars>>

\* _coalesce_post_step, lines 619-625: the second all-reduce returns the sum of
\* the workers' count_steps_delta.
LossReduced(w) ==
    /\ pc[w] = "ar_loss"
    /\ CollectiveDone(w)
    /\ count_steps_delta' = [count_steps_delta EXCEPT ![w] = ar_sum]
    /\ pc' = [pc EXCEPT ![w] = "post"]
    /\ UNCHANGED <<segmentVars, tallyVars, storageVars, evalVars, extractVars, runVars, cfg, step, is_last_step, last_read, inflight, n_async, n_wait,
                   protocol_ok, step_idxs, inserts, counterVars, EXIT, log,
                   storeVars, collectiveVars, fileVars>>

\* _coalesce_post_step, lines 627-630: rank 0 sets num_done back to "0";
\* num_steps_done += count_steps_delta.
PostStep(w) ==
    /\ pc[w] = "post"
    /\ IF _is_distributed /\ rank0_only(w)
       THEN /\ num_done' = 0
            /\ contrib' = [k \in DOMAIN contrib |-> 0]
       ELSE UNCHANGED <<num_done, contrib>>
    /\ num_steps_done' = [num_steps_done EXCEPT ![w] = @ + count_steps_delta[w]]
    /\ log' = [log EXCEPT ![w] = Append(@, "reduce")]
    /\ pc' = [pc EXCEPT ![w] = "log"]
    /\ UNCHANGED <<segmentVars, tallyVars, storageVars, evalVars, extractVars, runVars, cfg, rolloutVars, num_updates_done, EXIT, collectiveVars,
                   fileVars>>

\* The logging of line 862 left out in the cycles that write a checkpoint.
TrainingLog_not_when_checkpointing(w) ==
    /\ pc[w] = "log"
    /\ IF rank0_only(w) /\ should_checkpoint(w)
       THEN /\ pc' = [pc EXCEPT ![w] = "save_ckpt"]
            /\ UNCHANGED log
       ELSE /\ pc' = [pc EXCEPT ![w] = "top"]
            /\ log' = [log EXCEPT ![w] = Append(@, "log")]
    /\ UNCHANGED <<segmentVars, tallyVars, storageVars, evalVars, extractVars, runVars, cfg, rolloutVars, counterVars, EXIT, storeVars, collectiveVars,
                   fileVars>>

\* self._training_log(writer, losses, prev_time) (line 862), then the
\* checkpoint condition of line 865: rank0_only() and should_checkpoint().
TrainingLog(w) ==
    /\ pc[w] = "log"
    /\ log' = [log EXCEPT ![w] = Append(@, "log")]
    /\ pc' = [pc EXCEPT ![w] =
                IF rank0_only(w) /\ should_checkpoint(w) THEN "save_ckpt" ELSE "top"]
    /\ UNCHANGED <<segmentVars, tallyVars, storageVars, evalVars, extractVars, runVars, cfg, rolloutVars, counterVars, EXIT, storeVars, collectiveVars,
                   fileVars>>

\* save_checkpoint, lines 366-371: torch.save to ckpt.<count_checkpoints>.pth
\* begins.
SaveCheckpointOpen(w) ==
    /\ pc[w] = "save_ckpt"
    /\ ckpt_files' = [ckpt_files EXCEPT ![count_checkpoints] = torch_save_open(@)]
    /\ pc' = [pc EXCEPT ![w] = "write_ckpt"]
    /\ UNCHANGED <<segmentVars, tallyVars, storageVars, evalVars, extractVars, runVars, cfg, rolloutVars, counterVars, EXIT, log, storeVars,
                   collectiveVars, resume_file, latest, count_checkpoints>>

\* save_checkpoint, lines 366-371: the first torch.save returns.
SaveCheckpointWritten(w) ==
    /\ pc[w] = "write_ckpt"
    /\ ckpt_files' = [ckpt_files EXCEPT ![count_checkpoints] =
                         Record(num_updates_done[w], num_steps_done[w])]
    /\ pc' = [pc EXCEPT ![w] = "save_latest"]
    /\ UNCHANGED <<segmentVars, tallyVars, storageVars, evalVars, extractVars, runVars, cfg, rolloutVars, counterVars, EXIT, log, storeVars,
                   collectiveVars, resume_file, latest, count_checkpoints>>

\* save_checkpoint, lines 372-377: torch.save to latest.pth begins.
SaveLatestOpen(w) ==
    /\ pc[w] = "save_latest"
    /\ latest' = torch_save_open(latest)
    /\ pc' = [pc EXCEPT ![w] = "write_latest"]
    /\ UNCHANGED <<segmentVars, tallyVars, storageVars, evalVars, extractVars, runVars, cfg, rolloutVars, counterVars, EXIT, log, storeVars,
                   collectiveVars, resume_file, ckpt_files, count_checkpoints>>

\* save_checkpoint returning without the second torch.save having written
\* the record.
SaveLatestWritten_without_record(w) ==
    /\ pc[w] = "write_latest"
    /\ count_checkpoints' = count_checkpoints + 1
    /\ log' = [log EXCEPT ![w] = Append(@, "ckpt")]
    /\ pc' = [pc EXCEPT ![w] = "top"]
    /\ UNCHANGED <<segmentVars, tallyVars, storageVars, evalVars, extractVars, runVars, cfg, rolloutVars,
                   counterVars, EXIT, storeVars, collectiveVars, resume_file,
                   ckpt_files, latest>>

\* save_checkpoint, lines 372-377: the second torch.save returns; back in
\* train(), count_checkpoints += 1 (line 873).
SaveLatestWritten(w) ==
    /\ pc[w] = "write_latest"
    /\ latest' = Record(num_updates_done[w], num_steps_done[w])
    /\ count_checkpoints' = count_checkpoints + 1
    /\ log' = [log EXCEPT ![w] = Append(@, "ckpt")]
    /\ pc' = [pc EXCEPT ![w] = "top"]
    /\ UNCHANGED <<segmentVars, tallyVars, storageVars, evalVars, extractVars, runVars, cfg, rolloutVars, counterVars, EXIT, storeVars, collectiveVars,
                   resume_file, ckpt_files>>

\* The process dies while save_checkpoint is running.
Crash(w) ==
    /\ pc[w] \in {"save_ckpt", "write_ckpt", "save_latest", "write_latest"}
    /\ pc' = [pc EXCEPT ![w] = "crashed"]
    /\ UNCHANGED <<segmentVars, tallyVars, storageVars, evalVars, extractVars, runVars, cfg, rolloutVars, counterVars, EXIT, log, storeVars,
                   collectiveVars, fileVars>>

\* The preemption signal reaches worker w's process: its handler sets EXIT.
Preempt(w) ==
    /\ ~EXIT[w]
    /\ pc[w] \notin Terminal
    /\ EXIT' = [EXIT EXCEPT ![w] = TRUE]
    /\ UNCHANGED <<segmentVars, tallyVars, storageVars, evalVars, extractVars, runVars, cfg, pc, rolloutVars, counterVars, log, storeVars,
                   collectiveVars, fileVars>>

Next ==
    \/ \E w \in Workers : InitTrain(w)
    \/ \E w \in Workers : Barrier(w)
    \/ \E w \in Workers : CycleTop(w)
    \/ \E w \in Workers : LoopExit(w)
    \/ \E w \in Workers : CheckExit(w)
    \/ \E w \in Workers : ClosePreempted(w)
    \/ \E w \in Workers : RequeueJob(w)
    \/ \E w \in Workers : BeginRollout(w)
    \/ \E w \in Workers : RolloutStep(w)
    \/ \E w \in Workers : AddNumDone(w)
    \/ \E w \in Workers : UpdateAgent(w)
    \/ \E w \in Workers : StatsReduced(w)
    \/ \E w \in Workers : LossReduced(w)
    \/ \E w \in Workers : PostStep(w)
    \/ \E w \in Workers : TrainingLog(w)
    \/ \E w \in Workers : SaveCheckpointOpen(w)
    \/ \E w \in Workers : SaveCheckpointWritten(w)
    \/ \E w \in Workers : SaveLatestOpen(w)
    \/ \E w \in Workers : SaveLatestWritten(w)
    \/ \E w \in Workers : Crash(w)
    \/ \E w \in Workers : Preempt(w)

Spec == Init /\ [][Next]_vars

\* The training run without preemption signal and without a crash: every
\* worker process keeps running, so a step that stays possible is taken.
LiveNext ==
    \/ \E w \in Workers : InitTrain(w)
    \/ \E w \in Workers : Barrier(w)
    \/ \E w \in Workers : CycleTop(w)
    \/ \E w \in Workers : LoopExit(w)
    \/ \E w \in Workers : CheckExit(w)
    \/ \E w \in Workers : BeginRollout(w)
    \/ \E w \in Workers : RolloutStep(w)
    \/ \E w \in Workers : AddNumDone(w)
    \/ \E w \in Workers : UpdateAgent(w)
    \/ \E w \in Workers : StatsReduced(w)
    \/ \E w \in Workers : LossReduced(w)
    \/ \E w \in Workers : PostStep(w)
    \/ \E w \in Workers : TrainingLog(w)
    \/ \E w \in Workers : SaveCheckpointOpen(w)
    \/ \E w \in Workers : SaveCheckpointWritten(w)
    \/ \E w \in Workers : SaveLatestOpen(w)
    \/ \E w \in Workers : SaveLatestWritten(w)

LiveSpec == Init /\ [][LiveNext]_vars /\ WF_vars(LiveNext)

\* ------------------------------------------- one process, across restarts
\* train() of a single process (world_size 1, rank 0) with the job killed or
\* preempted and started again: what the resume record holds and what a
\* restarted train() does with it. The cycle is taken in three steps; the
\* rollout protocol inside it is the subject of Spec.

\* load_resume_state(config): the record, when there is one.
load_resume_state == IF resume_file.st = "complete" THEN resume_file ELSE None

\* The names train() reads from requeue_stats, lines 743-758.
restored_fields ==
    {"env_time", "pth_time", "num_steps_done", "num_updates_done",
     "_last_checkpoint_percent", "count_checkpoints", "prev_time",
     "running_episode_stats", "window_episode_stats"}

\* requeue_stats saving the time of the current segment only.
requeue_stats_without_prev_time ==
    [env_time |-> env_time,
     pth_time |-> pth_time,
     count_checkpoints |-> count_checkpoints,
     num_steps_done |-> num_steps_done[0],
     num_updates_done |-> num_updates_done[0],
     _last_checkpoint_percent |-> _last_checkpoint_percent,
     prev_time |-> now - t_start,
     running_episode_stats |-> running_episode_stats,
     window_episode_stats |-> window_episode_stats]

\* requeue_stats = dict(...), lines 781-791.
requeue_stats ==
    [env_time |-> env_time,
     pth_time |-> pth_time,
     count_checkpoints |-> count_checkpoints,
     num_steps_done |-> num_steps_done[0],
     num_updates_done |-> num_updates_done[0],
     _last_checkpoint_percent |-> _last_checkpoint_percent,
     prev_time |-> (now - t_start) + prev_time,
     running_episode_stats |-> running_episode_stats,
     window_episode_stats |-> window_episode_stats]

\* The dict handed to save_resume_state, lines 793-802. optim_state holds
\* the learning rate of the optimizer's parameter groups; lr_sched_state is
\* taken at the same point and goes with it.
resume_record ==
    [st |-> "complete", state_dict |-> agent, optim_state |-> lr,
     config |-> cfg, requeue_stats |-> requeue_stats]

\* A deque that never evicts.
deque_append_without_eviction(q, x) == Append(q, x)

\* deque(maxlen=reward_window_size).append(x): the oldest entry is evicted.
deque_append(q, x) ==
    IF Len(q) < reward_window_size THEN Append(q, x) ELSE Append(Tail(q), x)

\* BaseRLTrainer.should_checkpoint with NUM_CHECKPOINTS != -1:
\* _last_checkpoint_percent + 1 / NUM_CHECKPOINTS < percent_done(), with the
\* percentages in steps (times total_num_steps).
should_checkpoint_by_percent ==
    _last_checkpoint_percent * num_checkpoints + total_num_steps
        < num_steps_done[0] * num_checkpoints

\* The transitions of one rollout of the single process: no cutoff.
RolloutSize == cfg.num_envs * cfg.num_steps

\* One process, one buffer half, the rollout lengths of RolloutLengths.
ResumeInit ==
    /\ TrainerInit
    /\ cfg.world_size = 1
    /\ ~cfg.force_distributed
    /\ cfg.nbuffers = 1
    /\ cfg.sync_frac = <<1, 1>>
    /\ cfg.num_steps \in RolloutLengths
    /\ SegmentInit
    /\ percent_mode \in BOOLEAN
    /\ StorageIdle
    /\ EvalIdle
    /\ ExtractIdle
    /\ RunIdle

\* resume_state = load_resume_state(self.config), line 725.
LoadResumeState ==
    /\ pc[0] = "init"
    /\ resume_state' = load_resume_state
    /\ loads' = loads + 1
    /\ pc' = [pc EXCEPT ![0] = "loaded"]
    /\ UNCHANGED <<cfg, rolloutVars, counterVars, EXIT, log, storeVars,
                   collectiveVars, fileVars, now, t_start, prev_time, env_time,
                   pth_time, _last_checkpoint_percent, running_episode_stats,
                   window_episode_stats, agent, restarts, percent_mode, tallyVars, storageVars, evalVars, extractVars, runVars, lr, clip_param>>

\* self._init_train(resume_state), line 726: with None it loads the record
\* itself (lines 203-204) and takes the config of what it then has (lines
\* 206-207); the agent is built, the statistics and timers start from zero,
\* t_start is set (lines 318-344). Then count_checkpoints = 0 and
\* prev_time = 0 (lines 728-729). LambdaLR (lines 731-734) sets the learning
\* rate to base_lr * (1 - percent_done()) when it is built.
InitTrainSegment ==
    /\ pc[0] = "loaded"
    /\ \E rs \in {IF resume_state = None THEN load_resume_state
                                         ELSE resume_state} :
           cfg' = IF rs # None THEN rs.config ELSE cfg
    /\ loads' = IF resume_state = None THEN loads + 1 ELSE loads
    /\ agent' = FreshAgent
    /\ running_episode_stats' = 0
    /\ window_episode_stats' = <<>>
    /\ env_time' = 0
    /\ pth_time' = 0
    /\ t_start' = now
    /\ count_checkpoints' = 0
    /\ prev_time' = 0
    /\ lr' = total_num_steps - num_steps_done[0]
    /\ pc' = [pc EXCEPT ![0] = "inited"]
    /\ UNCHANGED <<rolloutVars, counterVars, EXIT, log, storeVars,
                   collectiveVars, resume_file, ckpt_files, latest, now,
                   _last_checkpoint_percent, resume_state, restarts,
                   percent_mode, tallyVars, storageVars, evalVars, extractVars, runVars, clip_param>>

\* The restore that leaves the policy and optimizer state as built.
RestoreResumeState_without_agent ==
    /\ pc[0] = "inited"
    /\ IF resume_state # None
       THEN /\ env_time' = resume_state.requeue_stats.env_time
            /\ pth_time' = resume_state.requeue_stats.pth_time
            /\ num_steps_done' =
                   [num_steps_done EXCEPT
                       ![0] = resume_state.requeue_stats.num_steps_done]
            /\ num_updates_done' =
                   [num_updates_done EXCEPT
                       ![0] = resume_state.requeue_stats.num_updates_done]
            /\ _last_checkpoint_percent' =
                   resume_state.requeue_stats._last_checkpoint_percent
            /\ count_checkpoints' = resume_state.requeue_stats.count_checkpoints
            /\ prev_time' = resume_state.requeue_stats.prev_time
            /\ running_episode_stats' =
                   resume_state.requeue_stats.running_episode_stats
            /\ window_episode_stats' =
                   resume_state.requeue_stats.window_episode_stats
            /\ lr' = resume_state.optim_state
            /\ log' = [log EXCEPT ![0] = <<"restore">>]
            /\ UNCHANGED agent
       ELSE UNCHANGED <<agent, lr, env_time, pth_time, counterVars,
                        _last_checkpoint_percent, count_checkpoints, prev_time,
                        running_episode_stats, window_episode_stats, log>>
    /\ pc' = [pc EXCEPT ![0] = "top"]
    /\ UNCHANGED <<cfg, rolloutVars, EXIT, storeVars, collectiveVars,
                   resume_file, ckpt_files, latest, now, t_start, resume_state,
                   loads, restarts, percent_mode, tallyVars, storageVars, evalVars, extractVars, runVars, clip_param>>

\* The restore that leaves the statistics window as built.
RestoreResumeState_without_window ==
    /\ pc[0] = "inited"
    /\ IF resume_state # None
       THEN /\ agent' = resume_state.state_dict
            /\ env_time' = resume_state.requeue_stats.env_time
            /\ pth_time' = resume_state.requeue_stats.pth_time
            /\ num_steps_done' =
                   [num_steps_done EXCEPT
                       ![0] = resume_state.requeue_stats.num_steps_done]
            /\ num_updates_done' =
                   [num_updates_done EXCEPT
                       ![0] = resume_state.requeue_stats.num_updates_done]
            /\ _last_checkpoint_percent' =
                   resume_state.requeue_stats._last_checkpoint_percent
            /\ count_checkpoints' = resume_state.requeue_stats.count_checkpoints
            /\ prev_time' = resume_state.requeue_stats.prev_time
            /\ running_episode_stats' =
                   resume_state.requeue_stats.running_episode_stats
            /\ lr' = resume_state.optim_state
            /\ log' = [log EXCEPT ![0] = <<"restore">>]
            /\ UNCHANGED window_episode_stats
       ELSE UNCHANGED <<agent, lr, env_time, pth_time, counterVars,
                        _last_checkpoint_percent, count_checkpoints, prev_time,
                        running_episode_stats, window_episode_stats, log>>
    /\ pc' = [pc EXCEPT ![0] = "top"]
    /\ UNCHANGED <<cfg, rolloutVars, EXIT, storeVars, collectiveVars,
                   resume_file, ckpt_files, latest, now, t_start, resume_state,
                   loads, restarts, percent_mode, tallyVars, storageVars, evalVars, extractVars, runVars, clip_param>>

\* Lines 739-758: with a record, the agent, optimizer and scheduler state and
\* the nine entries of requeue_stats are put back.
RestoreResumeState ==
    /\ pc[0] = "inited"
    /\ IF resume_state # None
       THEN /\ agent' = resume_state.state_dict
            /\ env_time' = resume_state.requeue_stats.env_time
            /\ pth_time' = resume_state.requeue_stats.pth_time
            /\ num_steps_done' =
                   [num_steps_done EXCEPT
                       ![0] = resume_state.requeue_stats.num_steps_done]
            /\ num_updates_done' =
                   [num_updates_done EXCEPT
                       ![0] = resume_state.requeue_stats.num_updates_done]
            /\ _last_checkpoint_percent' =
                   resume_state.requeue_stats._last_checkpoint_percent
            /\ count_checkpoints' = resume_state.requeue_stats.count_checkpoints
            /\ prev_time' = resume_state.requeue_stats.prev_time
            /\ running_episode_stats' =
                   resume_state.requeue_stats.running_episode_stats
            /\ window_episode_stats' =
                   resume_state.requeue_stats.window_episode_stats
            /\ lr' = resume_state.optim_state
            /\ log' = [log EXCEPT ![0] = <<"restore">>]
       ELSE UNCHANGED <<agent, lr, env_time, pth_time, counterVars,
                        _last_checkpoint_percent, count_checkpoints, prev_time,
                        running_episode_stats, window_episode_stats, log>>
    /\ pc' = [pc EXCEPT ![0] = "top"]
    /\ UNCHANGED <<cfg, rolloutVars, EXIT, storeVars, collectiveVars,
                   resume_file, ckpt_files, latest, now, t_start, resume_state,
                   loads, restarts, percent_mode, tallyVars, storageVars, evalVars, extractVars, runVars, clip_param>>

\* Top of a cycle, lines 771-802: the loop condition holds, the clip
\* parameter is set to ppo_cfg.clip_param * (1 - percent_done()) (lines
\* 775-778) and the resume record is saved when it is due.
SaveResumeState ==
    /\ pc[0] = "top"
    /\ ~is_done(0)
    /\ IF rank0_only(0) /\ _should_save_resume_state(0)
       THEN /\ resume_file' = resume_record
            /\ log' = [log EXCEPT ![0] = <<"save">>]
       ELSE /\ log' = [log EXCEPT ![0] = <<>>]
            /\ UNCHANGED resume_file
    /\ clip_param' = total_num_steps - num_steps_done[0]
    /\ pc' = [pc EXCEPT ![0] = "exit"]
    /\ UNCHANGED <<cfg, rolloutVars, counterVars, EXIT, storeVars,
                   collectiveVars, ckpt_files, latest, count_checkpoints, now,
                   t_start, prev_time, env_time, pth_time,
                   _last_checkpoint_percent, running_episode_stats,
                   window_episode_stats, resume_state, agent, loads, restarts,
                   percent_mode, tallyVars, storageVars, evalVars, extractVars, runVars, lr>>

\* The loop condition fails: self.envs.close() (line 877), train() returns.
SegmentLoopExit ==
    /\ pc[0] = "top"
    /\ is_done(0)
    /\ pc' = [pc EXCEPT ![0] = "finished"]
    /\ log' = [log EXCEPT ![0] = <<"close">>]
    /\ UNCHANGED <<segmentVars, tallyVars, storageVars, evalVars, extractVars, runVars, cfg, rolloutVars, counterVars, EXIT, storeVars,
                   collectiveVars, fileVars>>

\* if EXIT.is_set(): close, requeue_job(), return (lines 804-811).
SegmentCheckExit ==
    /\ pc[0] = "exit"
    /\ pc' = [pc EXCEPT ![0] = IF EXIT[0] THEN "returned" ELSE "cycle"]
    /\ log' = [log EXCEPT ![0] = Append(@, "exit_check")]
    /\ UNCHANGED <<segmentVars, tallyVars, storageVars, evalVars, extractVars, runVars, cfg, rolloutVars, counterVars, EXIT, storeVars,
                   collectiveVars, fileVars>>

\* The cycle without lr_scheduler.step().
CollectAndUpdate_without_lr_step ==
    /\ pc[0] = "cycle"
    /\ agent' = [updates |-> agent.updates + 1,
                 consumed |-> agent.consumed + RolloutSize]
    /\ count_steps_delta' = [count_steps_delta EXCEPT ![0] = RolloutSize]
    /\ env_time' = env_time + 1
    /\ pth_time' = pth_time + 2
    /\ \E ended \in 0..1 : running_episode_stats' = running_episode_stats + ended
    /\ pc' = [pc EXCEPT ![0] = "post"]
    /\ log' = [log EXCEPT ![0] = Append(@, "update")]
    /\ UNCHANGED <<cfg, step, is_last_step, last_read, inflight, n_async,
                   n_wait, protocol_ok, step_idxs, inserts, counterVars, EXIT,
                   storeVars, collectiveVars, fileVars, now, t_start, prev_time,
                   _last_checkpoint_percent, window_episode_stats, resume_state,
                   loads, restarts, percent_mode, tallyVars, storageVars, evalVars, extractVars, runVars, lr, clip_param>>

\* Lines 813-851: the rollout (time spent in the environments and in
\* inference, episodes ending) and _update_agent(): the policy and optimizer
\* state take in the transitions of the rollout, with the learning rate and
\* clip parameter of the cycle. Then lr_scheduler.step() (lines 853-854) sets
\* the learning rate to base_lr * (1 - percent_done()).
CollectAndUpdate ==
    /\ pc[0] = "cycle"
    /\ agent' = [updates |-> agent.updates + 1,
                 consumed |-> agent.consumed + RolloutSize]
    /\ count_steps_delta' = [count_steps_delta EXCEPT ![0] = RolloutSize]
    /\ env_time' = env_time + 1
    /\ pth_time' = pth_time + 2
    /\ \E ended \in 0..1 : running_episode_stats' = running_episode_stats + ended
    /\ lr' = total_num_steps - num_steps_done[0]
    /\ pc' = [pc EXCEPT ![0] = "post"]
    /\ log' = [log EXCEPT ![0] = Append(@, "update")]
    /\ UNCHANGED <<cfg, step, is_last_step, last_read, inflight, n_async,
                   n_wait, protocol_ok, step_idxs, inserts, counterVars, EXIT,
                   storeVars, collectiveVars, fileVars, now, t_start, prev_time,
                   _last_checkpoint_percent, window_episode_stats, resume_state,
                   loads, restarts, percent_mode, tallyVars, storageVars, evalVars, extractVars, runVars, clip_param>>

\* Lines 856-860: num_updates_done += 1 and _coalesce_post_step (the window
\* takes the running statistics, line 610; num_steps_done += count_steps_delta,
\* line 630).
CountUpdate ==
    /\ pc[0] = "post"
    /\ num_updates_done' = [num_updates_done EXCEPT ![0] = @ + 1]
    /\ num_steps_done' = [num_steps_done EXCEPT ![0] = @ + count_steps_delta[0]]
    /\ window_episode_stats' =
           deque_append(window_episode_stats, running_episode_stats)
    /\ pc' = [pc EXCEPT ![0] = "log"]
    /\ UNCHANGED <<cfg, rolloutVars, EXIT, log, storeVars, collectiveVars,
                   fileVars, now, t_start, prev_time, env_time, pth_time,
                   _last_checkpoint_percent, running_episode_stats,
                   resume_state, agent, loads, restarts, percent_mode, tallyVars, storageVars, evalVars, extractVars, runVars, lr, clip_param>>

\* Lines 862-873: the statistics are logged; when a checkpoint is due it is
\* written and count_checkpoints += 1. By percent, should_checkpoint also
\* sets _last_checkpoint_percent to percent_done().
LogAndCheckpoint ==
    /\ pc[0] = "log"
    /\ IF percent_mode
       THEN IF should_checkpoint_by_percent
            THEN /\ count_checkpoints' = count_checkpoints + 1
                 /\ _last_checkpoint_percent' = num_steps_done[0]
            ELSE UNCHANGED <<count_checkpoints, _last_checkpoint_percent>>
       ELSE /\ count_checkpoints' = IF should_checkpoint(0)
                                    THEN count_checkpoints + 1
                                    ELSE count_checkpoints
            /\ UNCHANGED _last_checkpoint_percent
    /\ pc' = [pc EXCEPT ![0] = "top"]
    /\ log' = [log EXCEPT ![0] = Append(@, "log")]
    /\ UNCHANGED <<cfg, rolloutVars, counterVars, EXIT, storeVars,
                   collectiveVars, resume_file, ckpt_files, latest, now,
                   t_start, prev_time, env_time, pth_time,
                   running_episode_stats, window_episode_stats, resume_state,
                   agent, loads, restarts, percent_mode, tallyVars, storageVars, evalVars, extractVars, runVars, lr, clip_param>>

\* The preemption signal reaches the running process.
SegmentPreempt ==
    /\ pc[0] \notin {"init", "returned", "finished"}
    /\ ~EXIT[0]
    /\ EXIT' = [EXIT EXCEPT ![0] = TRUE]
    /\ UNCHANGED <<segmentVars, tallyVars, storageVars, evalVars, extractVars, runVars, cfg, pc, rolloutVars, counterVars, log,
                   storeVars, collectiveVars, fileVars>>

\* time.time() moves on.
Tick ==
    /\ pc[0] \notin {"finished"}
    /\ now < MaxTime
    /\ now' = now + 1
    /\ UNCHANGED <<cfg, pc, rolloutVars, counterVars, EXIT, log, storeVars,
                   collectiveVars, fileVars, t_start, prev_time, env_time,
                   pth_time, _last_checkpoint_percent, running_episode_stats,
                   window_episode_stats, resume_state, agent, loads, restarts,
                   percent_mode, tallyVars, storageVars, evalVars, extractVars, runVars, lr, clip_param>>

\* The job is started again, after requeue_job() or after the process was
\* killed at any point: a new process with a new trainer. The resume record
\* and the clock are all that is left of the old one.
Restart ==
    /\ pc[0] \notin {"init", "finished"}
    /\ restarts < MaxRestarts
    /\ restarts' = restarts + 1
    /\ pc' = [pc EXCEPT ![0] = "init"]
    /\ EXIT' = [EXIT EXCEPT ![0] = FALSE]
    /\ log' = [log EXCEPT ![0] = <<>>]
    /\ num_steps_done' = [num_steps_done EXCEPT ![0] = 0]
    /\ num_updates_done' = [num_updates_done EXCEPT ![0] = 0]
    /\ count_steps_delta' = [count_steps_delta EXCEPT ![0] = 0]
    /\ count_checkpoints' = 0
    /\ t_start' = 0
    /\ prev_time' = 0
    /\ env_time' = 0
    /\ pth_time' = 0
    /\ _last_checkpoint_percent' = 0 - total_num_steps
    /\ running_episode_stats' = 0
    /\ window_episode_stats' = <<>>
    /\ resume_state' = None
    /\ agent' = FreshAgent
    /\ loads' = 0
    /\ lr' = total_num_steps
    /\ clip_param' = total_num_steps
    /\ UNCHANGED <<cfg, step, is_last_step, last_read, inflight, n_async,
                   n_wait, protocol_ok, step_idxs, inserts, storeVars,
                   collectiveVars, resume_file, ckpt_files, latest, now,
                   percent_mode, tallyVars, storageVars, evalVars, extractVars, runVars>>

ResumeNext ==
    \/ LoadResumeState
    \/ InitTrainSegment
    \/ RestoreResumeState
    \/ SaveResumeState
    \/ SegmentLoopExit
    \/ SegmentCheckExit
    \/ CollectAndUpdate
    \/ CountUpdate
    \/ LogAndCheckpoint
    \/ SegmentPreempt
    \/ Tick
    \/ Restart

ResumeSpec == ResumeInit /\ [][ResumeNext]_vars

\* ------------------------------------------- BufferSpec: what is stored
\* The collection / update cycle of one non-distributed process, followed
\* through the rollout storage and the episode statistics.
BufferInit ==
    /\ TrainerInit
    /\ cfg.world_size = 1
    /\ ~cfg.force_distributed
    /\ cfg.sync_frac = <<1, 1>>
    /\ SegmentInit
    /\ percent_mode = FALSE
    /\ StorageInit
    /\ EvalIdle
    /\ ExtractIdle
    /\ RunIdle

\* What the storage actions leave alone.
storageRest == <<cfg, is_last_step, last_read, inflight, n_async, n_wait,
                 protocol_ok, inserts, count_steps_delta, EXIT, log, storeVars,
                 collectiveVars, fileVars, segmentVars, tallyVars, evalVars, extractVars, runVars>>

\* _init_train, lines 320-339: the envs are reset and their observations
\* become step 0 of the storage (line 330); the accumulated episode reward
\* and the running statistics start from zero (lines 332-336).
StorageInitTrain ==
    /\ pc[0] = "init"
    /\ buffers' = [buffers EXCEPT
                      !.observations[0] = [s \in Slots |-> observation(env_state[s])]]
    /\ current_episode_reward' = [s \in Slots |-> 0]
    /\ episode_stats' = [reward |-> [s \in Slots |-> 0],
                         count |-> [s \in Slots |-> 0]]
    /\ pc' = [pc EXCEPT ![0] = "begin"]
    /\ UNCHANGED <<storageRest, step, step_idxs, counterVars, env_state, use_gae>>

\* Lines 764 and 818-819: the loop goes on, the policy acts on step 0 of
\* every half.
StorageBeginRollout ==
    /\ pc[0] = "begin"
    /\ ~is_done(0)
    /\ \E r \in {storage_initial_submits(Storage, 0)} :
          buffers' = r.buffers
    /\ step' = [step EXCEPT ![0] = 0]
    /\ pc' = [pc EXCEPT ![0] = "rollout"]
    /\ UNCHANGED <<storageRest, step_idxs, counterVars, current_episode_reward,
                   episode_stats, env_state, use_gae>>

\* Lines 821-844 of a process that is not distributed: one step of the
\* rollout loop, the buffer loop over every half; the rollout ends with
\* step num_steps - 1.
StorageRolloutStep ==
    /\ pc[0] = "rollout"
    /\ LET last == should_end_early(step[0] + 1, 0) \/ step[0] + 1 = cfg.num_steps
       IN /\ \E r \in {storage_buffer_loop(Storage, 0, last)} :
                /\ buffers' = r.buffers
                /\ step_idxs' = [step_idxs EXCEPT ![0] = r.idxs]
                /\ env_state' = r.env
                /\ current_episode_reward' = r.reward
                /\ episode_stats' = r.stats
          /\ IF last THEN /\ pc' = [pc EXCEPT ![0] = "update"]
                          /\ UNCHANGED step
                     ELSE /\ step' = [step EXCEPT ![0] = @ + 1]
                          /\ UNCHANGED pc
    /\ UNCHANGED <<storageRest, counterVars, use_gae>>

\* _update_agent (lines 572-597) and the counters of lines 856 and 630: the
\* bootstrap value of the current step (lines 577-585), compute_returns
\* (lines 587-589), the policy update, after_update (line 595).
StorageUpdateAgent ==
    /\ pc[0] = "update"
    /\ LET T == step_idxs[0][0]
           next_value == [s \in Slots |->
                            get_value(buffers.observations[T][s],
                                      buffers.recurrent_hidden_states[T][s],
                                      buffers.masks[T][s])]
       IN buffers' = rotate(compute_returns(buffers, T, next_value, use_gae), T)
    /\ step_idxs' = [step_idxs EXCEPT ![0] = after_update(@)]
    /\ num_updates_done' = [num_updates_done EXCEPT ![0] = @ + 1]
    /\ num_steps_done' = [num_steps_done EXCEPT ![0] = @ + RolloutSize]
    /\ pc' = [pc EXCEPT ![0] = "begin"]
    /\ UNCHANGED <<storageRest, step, current_episode_reward, episode_stats,
                   env_state, use_gae>>

\* Line 764 and 875: is_done() ends the loop, the envs are closed.
StorageFinish ==
    /\ pc[0] = "begin"
    /\ is_done(0)
    /\ pc' = [pc EXCEPT ![0] = "finished"]
    /\ UNCHANGED <<storageRest, step, step_idxs, counterVars, storageVars>>

BufferNext ==
    \/ StorageInitTrain
    \/ StorageBeginRollout
    \/ StorageRolloutStep
    \/ StorageUpdateAgent
    \/ StorageFinish

BufferSpec == BufferInit /\ [][BufferNext]_vars

\* ------------------------------------------------- EvalSpec: evaluation
\* An evaluation env: its index in the pool as constructed, the episode of
\* its split it is in, the number of episodes of the split (it starts over
\* after the last one), the steps taken in the episode.
EvalEnv(i) == [id |-> i, ep |-> 0, n |-> eval_cfg.number_of_episodes[i], t |-> 0]

\* envs.current_episodes()[i]: (scene_id, episode_id) of the env's episode
current_episode(e) == <<e.id, e.ep>>

eval_observation(e) == <<e.id, e.ep, e.t>>

\* The steps the env's episode takes: the episodes of the dataset differ in
\* length, from a single step to MaxEpisodeLen steps.
episode_steps(e) == ((eval_cfg.first_len + e.id + e.ep) % MaxEpisodeLen) + 1

\* One envs.step of an env (line 1077): reward, done, the env after it.
eval_env_step(e) ==
    LET done == e.t + 1 >= episode_steps(e)
    IN [reward |-> e.id + e.t,
        done |-> done,
        env |-> IF done THEN [e EXCEPT !.ep = (@ + 1) % e.n, !.t = 0]
                        ELSE [e EXCEPT !.t = @ + 1]]

\* The action the policy samples, opaque to the trainer.
sampled_action(obs, hidden, mask) == (obs[2] + obs[3] + next_hidden(obs, hidden, mask)) % 3

\* The entries of seq at the positions outside S, in their order.
RECURSIVE keep_from(_, _, _)
keep_from(seq, S, i) ==
    IF i > Len(seq) THEN <<>>
    ELSE (IF i \in S THEN <<>> ELSE <<seq[i]>>) \o keep_from(seq, S, i + 1)

\* _pause_envs that takes the first remaining entries of the episode rewards
\* instead of those of the remaining slots.
_pause_envs_truncating_rewards(S, e, hidden, masks, rewards, actions, obs, frames) ==
    [envs |-> keep_from(e, S, 1),
     test_recurrent_hidden_states |-> keep_from(hidden, S, 1),
     not_done_masks |-> keep_from(masks, S, 1),
     current_episode_reward |-> SubSeq(rewards, 1, Len(rewards) - Cardinality(S)),
     prev_actions |-> keep_from(actions, S, 1),
     batch |-> keep_from(obs, S, 1),
     rgb_frames |-> keep_from(frames, S, 1)]

\* BaseRLTrainer._pause_envs(envs_to_pause, envs, test_recurrent_hidden_states,
\* not_done_masks, current_episode_reward, prev_actions, batch, rgb_frames):
\* the slots of S leave the pool, every per-slot state is compacted to the
\* remaining slots in their order. Slot i of the code is position i + 1 here.
_pause_envs(S, e, hidden, masks, rewards, actions, obs, frames) ==
    [envs |-> keep_from(e, S, 1),
     test_recurrent_hidden_states |-> keep_from(hidden, S, 1),
     not_done_masks |-> keep_from(masks, S, 1),
     current_episode_reward |-> keep_from(rewards, S, 1),
     prev_actions |-> keep_from(actions, S, 1),
     batch |-> keep_from(obs, S, 1),
     rgb_frames |-> keep_from(frames, S, 1)]

\* ep_eval_count[k] of the defaultdict(lambda: 0) of line 998
eval_count(k) == IF k \in DOMAIN ep_eval_count THEN ep_eval_count[k] ELSE 0

\* config.habitat_baselines.eval.evals_per_ep
evals_per_ep == 1

EvalSpecInit ==
    /\ TrainerInit
    /\ cfg.world_size = 1
    /\ ~cfg.force_distributed
    /\ cfg.sync_frac = <<1, 1>>
    /\ cfg.nbuffers = 1
    /\ cfg.num_steps = 1
    /\ cfg.num_envs = 1
    /\ SegmentInit
    /\ percent_mode = FALSE
    /\ StorageIdle
    /\ EvalInit
    /\ ExtractIdle
    /\ RunIdle

\* What the evaluation leaves alone: the state of training.
evalRest == <<cfg, pc, rolloutVars, counterVars, EXIT, log, storeVars,
              collectiveVars, fileVars, segmentVars, tallyVars, storageVars,
              extractVars, runVars>>

evalLocals == <<envs, number_of_eval_episodes, test_recurrent_hidden_states,
                not_done_masks, eval_episode_reward, prev_actions, batch,
                rgb_frames, ep_eval_count, stats_episodes, envs_to_pause>>

\* Lines 895-903: a distributed trainer raises RuntimeError; otherwise the
\* checkpoint is loaded when eval.should_load_ckpt.
EvalLoadCheckpoint ==
    /\ eval_pc = "start"
    /\ IF eval_cfg.is_distributed
       THEN /\ eval_pc' = "raised"
            /\ eval_trace' = Append(eval_trace, "RuntimeError")
       ELSE /\ eval_pc' = "loaded"
            /\ eval_trace' = IF eval_cfg.should_load_ckpt
                             THEN Append(eval_trace, "load_checkpoint")
                             ELSE eval_trace
    /\ UNCHANGED <<evalRest, eval_cfg, evalLocals>>

\* Line 944: self._init_envs(config, is_eval=True) constructs the env pool.
EvalInitEnvs ==
    /\ eval_pc = "loaded"
    /\ envs' = [i \in 1..eval_cfg.num_environments |-> EvalEnv(i)]
    /\ eval_trace' = Append(eval_trace, "init_envs")
    /\ eval_pc' = "constructed"
    /\ UNCHANGED <<evalRest, eval_cfg, number_of_eval_episodes,
                   test_recurrent_hidden_states, not_done_masks,
                   eval_episode_reward, prev_actions, batch, rgb_frames,
                   ep_eval_count, stats_episodes, envs_to_pause>>

\* Lines 969-1008: the envs are reset, the per-slot locals are created.
EvalReset ==
    /\ eval_pc = "constructed"
    /\ batch' = [i \in DOMAIN envs |-> eval_observation(envs[i])]
    /\ eval_episode_reward' = [i \in DOMAIN envs |-> 0]
    /\ test_recurrent_hidden_states' = [i \in DOMAIN envs |-> 0]
    /\ prev_actions' = [i \in DOMAIN envs |-> 0]
    /\ not_done_masks' = [i \in DOMAIN envs |-> FALSE]
    /\ rgb_frames' = [i \in DOMAIN envs |-> <<>>]
    /\ ep_eval_count' = <<>>
    /\ stats_episodes' = {}
    /\ eval_trace' = Append(eval_trace, "reset")
    /\ eval_pc' = "reset"
    /\ UNCHANGED <<evalRest, eval_cfg, envs, number_of_eval_episodes, envs_to_pause>>

\* sum(self.envs.number_of_episodes)
RECURSIVE total_num_eps(_)
total_num_eps(i) ==
    IF i > Len(envs) THEN 0 ELSE envs[i].n + total_num_eps(i + 1)

\* Lines 1010-1030: the number of episodes to run, and the assertion that it
\* is positive.
EvalEpisodeCount ==
    /\ eval_pc = "reset"
    /\ LET total == total_num_eps(1)
           asked == eval_cfg.test_episode_count
           number == IF asked = 0 - 1 THEN total
                     ELSE IF total < asked /\ total > 1 THEN total
                     ELSE asked
       IN /\ number_of_eval_episodes' = number
          /\ IF number > 0
             THEN /\ eval_pc' = "loop"
                  /\ UNCHANGED eval_trace
             ELSE /\ eval_pc' = "raised"
                  /\ eval_trace' = Append(eval_trace, "AssertionError")
    /\ UNCHANGED <<evalRest, eval_cfg, envs, test_recurrent_hidden_states,
                   not_done_masks, eval_episode_reward, prev_actions, batch,
                   rgb_frames, ep_eval_count, stats_episodes, envs_to_pause>>

\* The condition of the evaluation loop, lines 1040-1043.
eval_loop_goes_on ==
    /\ Cardinality(stats_episodes) < number_of_eval_episodes * evals_per_ep
    /\ Len(envs) > 0

\* Lines 1044-1171, one pass of the loop up to the _pause_envs call: the
\* policy acts, the envs step, the locals take the outputs; an env whose next
\* episode has been evaluated already (as counted before this step's own
\* episode is counted, lines 1103-1113) is put on envs_to_pause, and the
\* lookup enters the episode into ep_eval_count, a defaultdict; an ended
\* episode is counted and recorded (lines 1131-1146).
EvalStep ==
    /\ eval_pc = "loop"
    /\ eval_loop_goes_on
    /\ LET N == DOMAIN envs
           out == [i \in N |-> eval_env_step(envs[i])]
           ended == {current_episode(envs[i]) : i \in {j \in N : out[j].done}}
           looked_up == {current_episode(out[i].env) : i \in N}
       IN /\ test_recurrent_hidden_states' =
                [i \in N |-> next_hidden(batch[i], test_recurrent_hidden_states[i],
                                         not_done_masks[i])]
          /\ prev_actions' =
                [i \in N |-> sampled_action(batch[i], test_recurrent_hidden_states[i],
                                            not_done_masks[i])]
          /\ envs' = [i \in N |-> out[i].env]
          /\ batch' = [i \in N |-> eval_observation(out[i].env)]
          /\ not_done_masks' = [i \in N |-> ~out[i].done]
          /\ eval_episode_reward' =
                [i \in N |-> IF out[i].done THEN 0
                             ELSE eval_episode_reward[i] + out[i].reward]
          /\ rgb_frames' =
                [i \in N |-> IF out[i].done THEN <<>>
                             ELSE Append(rgb_frames[i], eval_observation(out[i].env))]
          /\ envs_to_pause' =
                {i \in N : eval_count(current_episode(out[i].env)) = evals_per_ep}
          /\ ep_eval_count' =
                [k \in DOMAIN ep_eval_count \cup looked_up \cup ended |->
                    eval_count(k) + (IF k \in ended THEN 1 ELSE 0)]
          /\ stats_episodes' =
                stats_episodes \cup {<<k, eval_count(k) + 1>> : k \in ended}
    /\ eval_trace' = Append(eval_trace, "step")
    /\ eval_pc' = "pause"
    /\ UNCHANGED <<evalRest, eval_cfg, number_of_eval_episodes>>

\* Lines 1173-1191: the _pause_envs call and the assignment of what it
\* returns to the seven locals.
PauseEnvs ==
    /\ eval_pc = "pause"
    /\ \E r \in {_pause_envs(envs_to_pause, envs, test_recurrent_hidden_states,
                             not_done_masks, eval_episode_reward, prev_actions,
                             batch, rgb_frames)} :
          /\ envs' = r.envs
          /\ test_recurrent_hidden_states' = r.test_recurrent_hidden_states
          /\ not_done_masks' = r.not_done_masks
          /\ eval_episode_reward' = r.current_episode_reward
          /\ prev_actions' = r.prev_actions
          /\ batch' = r.batch
          /\ rgb_frames' = r.rgb_frames
    /\ eval_pc' = "loop"
    /\ UNCHANGED <<evalRest, eval_cfg, eval_trace, number_of_eval_episodes,
                   ep_eval_count, stats_episodes, envs_to_pause>>

\* Lines 1194-1221: after the loop, the assertion that enough episodes were
\* evaluated, the results, self.envs.close().
EvalFinish ==
    /\ eval_pc = "loop"
    /\ ~eval_loop_goes_on
    /\ IF Cardinality(DOMAIN ep_eval_count) >= number_of_eval_episodes
       THEN /\ eval_pc' = "closed"
            /\ eval_trace' = Append(eval_trace, "close")
       ELSE /\ eval_pc' = "raised"
            /\ eval_trace' = Append(eval_trace, "AssertionError")
    /\ UNCHANGED <<evalRest, eval_cfg, evalLocals>>

EvalNext ==
    \/ EvalLoadCheckpoint
    \/ EvalInitEnvs
    \/ EvalReset
    \/ EvalEpisodeCount
    \/ EvalStep
    \/ PauseEnvs
    \/ EvalFinish

EvalSpec == EvalSpecInit /\ [][EvalNext]_vars

\* ------------------------------------------- _extract_scalars_from_info
\* result.update(other), result[k] = v: the entries of other replace and
\* extend those of result.
update(r, other) ==
    [x \in DOMAIN r \cup DOMAIN other |->
        IF x \in DOMAIN other THEN other[x] ELSE r[x]]

\* float(v) of a value of np.size 1 that is no string: the number it holds
float(v) == v.val

\* Lines 394-419, by the passes of the loop over info.items(): the result of
\* the earlier passes, and the pass of the last entry.  An entry whose key
\* is no string or is in METRICS_BLACKLIST is skipped (lines 400-401); a
\* dictionary is flattened by the call on it, its keys get the prefix
\* k + "." and those whose prefixed key is in METRICS_BLACKLIST are left out
\* (lines 403-413; the keys returned are strings, line 410); a value of
\* np.size 1 that is no string is entered as a float (lines 416-417).
RECURSIVE _extract_scalars_from_info(_)
_extract_scalars_from_info(d) ==
    IF d = <<>> THEN <<>>
    ELSE
        LET earlier == _extract_scalars_from_info(SubSeq(d, 1, Len(d) - 1))
            k == d[Len(d)].k
            v == d[Len(d)].v
        IN  IF ~k.is_str \/ k.name \in METRICS_BLACKLIST THEN earlier
            ELSE IF v.type = "dict" THEN
                LET sub == _extract_scalars_from_info(v.items)
                    kept == {subk \in DOMAIN sub :
                                k.name \o "." \o subk \notin METRICS_BLACKLIST}
                IN  update(earlier,
                        [x \in {k.name \o "." \o subk : subk \in kept} |->
                            sub[CHOOSE subk \in kept : k.name \o "." \o subk = x]])
            ELSE IF v.size = 1 /\ v.type # "str" THEN
                update(earlier, [x \in {k.name} |-> float(v)])
            ELSE earlier

ExtractSpecInit ==
    /\ TrainerInit
    /\ cfg.world_size = 1
    /\ ~cfg.force_distributed
    /\ cfg.sync_frac = <<1, 1>>
    /\ cfg.nbuffers = 1
    /\ cfg.num_steps = 1
    /\ cfg.num_envs = 1
    /\ SegmentInit
    /\ percent_mode = FALSE
    /\ StorageIdle
    /\ EvalIdle
    /\ ExtractInit
    /\ info \in Infos(MaxDepth, MaxKeys)
    /\ RunIdle

\* What the call leaves alone.
extractRest == <<cfg, pc, rolloutVars, counterVars, EXIT, log, storeVars,
                 collectiveVars, fileVars, segmentVars, tallyVars, storageVars,
                 evalVars, runVars>>

\* cls._extract_scalars_from_info(info)
ExtractScalars ==
    /\ extract_pc = "called"
    /\ result' = _extract_scalars_from_info(info)
    /\ extract_pc' = "returned"
    /\ UNCHANGED <<info, extractRest>>

ExtractNext == ExtractScalars

ExtractSpec == ExtractSpecInit /\ [][ExtractNext]_vars

\* ------------------------------------------------------------------ run.py
\* baseline_registry.get_trainer(name): the class registered under the name
\* (PPOTrainer under both of its names), None when there is none.
get_trainer(name) ==
    IF name \in RegisteredTrainers THEN "PPOTrainer" ELSE "None"

\* One thing the run did: a call, or the error that ended it.
Event(ev, arg) == [ev |-> ev, arg |-> arg]

RunSpecInit ==
    /\ TrainerInit
    /\ cfg.world_size = 1
    /\ ~cfg.force_distributed
    /\ cfg.sync_frac = <<1, 1>>
    /\ cfg.nbuffers = 1
    /\ cfg.num_steps = 1
    /\ cfg.num_envs = 1
    /\ SegmentInit
    /\ percent_mode = FALSE
    /\ StorageIdle
    /\ EvalIdle
    /\ ExtractIdle
    /\ RunInit
    /\ argv \in [run_type : RunTypes]
    /\ config \in [trainer_name : TrainerNames,
                   force_torch_single_threaded : BOOLEAN]
    /\ cuda_is_available \in BOOLEAN

\* What the run of run.py leaves alone.
runRest == <<cfg, pc, rolloutVars, counterVars, EXIT, log, storeVars,
             collectiveVars, fileVars, segmentVars, tallyVars, storageVars,
             evalVars, extractVars>>

\* main, lines 48-53: parse_args ends the program when --run-type is none of
\* the choices of build_parser (lines 26-31); otherwise run_exp is called.
Main ==
    /\ run_pc = "main"
    /\ IF argv.run_type \in {"train", "eval"}
       THEN /\ run_pc' = "run_exp"
            /\ UNCHANGED run_trace
       ELSE /\ run_pc' = "exited"
            /\ run_trace' = Append(run_trace, Event("SystemExit", argv.run_type))
    /\ UNCHANGED <<argv, config, cuda_is_available, single_threaded, runRest>>

\* run_exp, lines 88-100: get_config, then execute_exp(config, run_type).
RunExp ==
    /\ run_pc = "run_exp"
    /\ run_trace' = Append(run_trace, Event("get_config", ""))
    /\ run_pc' = "execute_exp"
    /\ UNCHANGED <<argv, config, cuda_is_available, single_threaded, runRest>>

\* execute_exp, lines 62-69: the seeds are set, and torch is made single
\* threaded when force_torch_single_threaded and cuda is available.
ExecuteExpSeed ==
    /\ run_pc = "execute_exp"
    /\ single_threaded' =
            (config.force_torch_single_threaded /\ cuda_is_available)
    /\ run_pc' = "get_trainer"
    /\ UNCHANGED <<argv, config, cuda_is_available, run_trace, runRest>>

\* Lines 71-76 with the assert left out: whatever get_trainer returns goes on
\* to be called.
ExecuteExpGetTrainer_unchecked ==
    /\ run_pc = "get_trainer"
    /\ run_pc' = "construct"
    /\ UNCHANGED <<argv, config, cuda_is_available, single_threaded, run_trace,
                   runRest>>

\* Lines 71-76: trainer_init = get_trainer(trainer_name), and the assertion
\* that it is not None, with the message "<trainer_name> is not supported".
ExecuteExpGetTrainer ==
    /\ run_pc = "get_trainer"
    /\ IF get_trainer(config.trainer_name) # "None"
       THEN /\ run_pc' = "construct"
            /\ UNCHANGED run_trace
       ELSE /\ run_pc' = "raised"
            /\ run_trace' = Append(run_trace,
                    Event("AssertionError",
                          config.trainer_name \o " is not supported"))
    /\ UNCHANGED <<argv, config, cuda_is_available, single_threaded, runRest>>

\* Line 77: trainer = trainer_init(config)
ExecuteExpConstruct ==
    /\ run_pc = "construct"
    /\ run_trace' = Append(run_trace,
            Event("construct", get_trainer(config.trainer_name)))
    /\ run_pc' = "dispatch"
    /\ UNCHANGED <<argv, config, cuda_is_available, single_threaded, runRest>>

\* Lines 82-85: trainer.train() if run_type == "train", trainer.eval() if it
\* is "eval", neither otherwise.
ExecuteExpDispatch ==
    /\ run_pc = "dispatch"
    /\ run_trace' =
            IF argv.run_type = "train" THEN Append(run_trace, Event("train", ""))
            ELSE IF argv.run_type = "eval"
                 THEN Append(run_trace, Event("eval", ""))
            ELSE run_trace
    /\ run_pc' = "done"
    /\ UNCHANGED <<argv, config, cuda_is_available, single_threaded, runRest>>

RunNext ==
    \/ Main
    \/ RunExp
    \/ ExecuteExpSeed
    \/ ExecuteExpGetTrainer
    \/ ExecuteExpConstruct
    \/ ExecuteExpDispatch

RunSpec == RunSpecInit /\ [][RunNext]_vars

\* ------------------------------------------------------------ properties
Range(s) == {s[i] : i \in DOMAIN s}
Count(s, x) == Cardinality({i \in DOMAIN s : s[i] = x})

\* No environment slot of worker w holds a submitted, uncollected step.
NoStepInFlight(w) == \A s \in Slots : inflight[w][s] = 0

\* Worker w's collection phase has ended.
RolloutEnded(w) == pc[w] \in {"add", "update"}

\* Worker w's rollout was ended by the straggler cutoff at rollout_step =
\* step[w] + 1, before num_steps.
CutShort(w) == RolloutEnded(w) /\ step[w] + 1 < cfg.num_steps

\* Positions of the preemption exit, and positions inside a cycle after the
\* num_done increment.
PreemptPath == {"close_preempt", "requeue", "returned"}
AfterIncrement == {"update", "ar_stats", "ar_loss", "post", "log", "save_ckpt",
                   "write_ckpt", "save_latest", "write_latest"}

C2_EverySubmitCollected ==
    \A w \in Workers :
        RolloutEnded(w) =>
            \A s \in Slots : /\ n_async[w][s] = n_wait[w][s]
                             /\ inflight[w][s] = 0

\* A double-buffered rollout that the cutoff ended, with both halves collected.
C2_CutRolloutCollected ==
    \E w \in Workers :
        /\ CutShort(w)
        /\ cfg.nbuffers = 2
        /\ \A s \in Slots : n_wait[w][s] >= 1

\* C3: every wait_step_at(slot) finds a submitted step of that slot that has
\* not been waited on, every async_step_at(slot) finds the slot without a step
\* in flight, and no slot ever holds more than one submitted, uncollected step.
C3_OneStepInFlight ==
    \A w \in Workers :
        /\ protocol_ok[w]
        /\ \A s \in Slots : inflight[w][s] \in {0, 1}

\* A worker inside its second rollout, double buffered, after a first cycle in
\* which some worker was cut short, with a step in flight on every slot.
C3_SecondRolloutAfterCutoff ==
    \E w \in Workers :
        /\ pc[w] = "rollout"
        /\ num_updates_done[w] = 1
        /\ step[w] >= 1
        /\ cfg.nbuffers = 2
        /\ num_steps_done[w] < cfg.world_size * cfg.num_envs * cfg.num_steps
        /\ \A s \in Slots : inflight[w][s] = 1

\* C4: while a distributed worker is in the collection phase of cycle k
\* (k = num_updates_done), the num_done that should_end_early reads holds no
\* increment of an earlier cycle.
C4_NoIncrementOfEarlierCycle ==
    \A w \in Workers :
        (_is_distributed /\ pc[w] = "rollout") =>
            \A k \in DOMAIN contrib : k < num_updates_done[w] => contrib[k] = 0

\* C5: in a cycle that a distributed worker does not abandon, the worker has
\* not incremented num_done while it collects, increments it once when the
\* rollout has ended, directly before the policy update, and not again in the
\* rest of the cycle.
C5_OneIncrementPerCycle ==
    \A w \in Workers :
        _is_distributed =>
            /\ pc[w] \in {"exit", "begin", "rollout", "add"} =>
                   Count(log[w], "add") = 0
            /\ pc[w] \in AfterIncrement => Count(log[w], "add") = 1
            /\ pc[w] = "update" =>
                   /\ Len(log[w]) >= 2
                   /\ log[w][Len(log[w])] = "add"
                   /\ log[w][Len(log[w]) - 1] = "collect"
            /\ pc[w] \in AfterIncrement \ {"update"} =>
                   \E i \in DOMAIN log[w] :
                       /\ i > 1
                       /\ log[w][i] = "update"
                       /\ log[w][i - 1] = "add"
            /\ (pc[w] = "top" /\ log[w] # <<>>) => Count(log[w], "add") = 1

\* A distributed worker whose rollout was cut short, past its increment.
C5_IncrementAfterCutoff ==
    \E w \in Workers :
        /\ pc[w] = "update"
        /\ CutShort(w)
        /\ Count(log[w], "add") = 1

\* C6: a rollout is cut short only if the num_done read by the deciding
\* should_end_early call satisfies num_done / world_size >= sync_frac.
C6_CutoffNeedsQuorum ==
    \A w \in Workers :
        CutShort(w) =>
            last_read[w] * cfg.sync_frac[2] >= cfg.sync_frac[1] * cfg.world_size

\* A worker of two cut short on reading that one worker is done, with
\* sync_frac = 1/2.
C6_CutOnQuorum ==
    \E w \in Workers :
        /\ CutShort(w)
        /\ cfg.world_size = 2
        /\ cfg.sync_frac = <<1, 2>>
        /\ last_read[w] = 1

\* C7: between two steps of a rollout every buffer half has collected `step`
\* steps, and when the rollout has ended, by cutoff or at num_steps, every
\* half has collected the same step[w] + 1 steps: all halves hold the same
\* current step index when the policy update starts.
C7_HalvesEndTogether ==
    \A w \in Workers :
        /\ pc[w] = "rollout" => \A b \in Halves : step_idxs[w][b] = step[w]
        /\ RolloutEnded(w) => \A b \in Halves : step_idxs[w][b] = step[w] + 1

\* A double-buffered rollout cut short, about to start the policy update.
C7_CutRolloutAtUpdate ==
    \E w \in Workers :
        /\ pc[w] = "update"
        /\ CutShort(w)
        /\ cfg.nbuffers = 2
        /\ cfg.num_envs = 2
        /\ step_idxs[w][1] >= 1

\* C8: a worker that found EXIT set at the top-of-cycle check has, in that
\* cycle, done nothing but: save the resume state if line 780 says it is due,
\* test EXIT, close the environments, request the requeue, return, in this
\* order; it has collected nothing, not incremented num_done and not updated.
C8_PreemptedCycle ==
    \A w \in Workers :
        pc[w] \in PreemptPath =>
            LET due == rank0_only(w) /\ _should_save_resume_state(w)
                head == IF due THEN <<"save", "exit_check">> ELSE <<"exit_check">>
                tail == CASE pc[w] = "close_preempt" -> <<>>
                          [] pc[w] = "requeue" -> <<"close">>
                          [] pc[w] = "returned" -> <<"close", "requeue">>
            IN /\ log[w] = head \o tail
               /\ due => resume_file = Record(num_updates_done[w], num_steps_done[w])
               /\ NoStepInFlight(w)

\* Rank 0 has returned for preemption after saving a due resume state, while
\* the straggler counter is not 0.
C8_ReturnedAfterSave ==
    \E w \in Workers :
        /\ pc[w] = "returned"
        /\ Head(log[w]) = "save"
        /\ num_done > 0

\* What a cycle that ran to its end has logged, apart from the saves.
FullCycle ==
    IF _is_distributed
    THEN <<"exit_check", "collect", "add", "update", "reduce", "log">>
    ELSE <<"exit_check", "collect", "update", "reduce", "log">>

IsCycleStep(x) == x \notin {"save", "ckpt"}

\* C9: EXIT is tested once per cycle, with no environment step in flight; a
\* worker takes the preemption exit only from that test, never from inside a
\* cycle, and every cycle it has started ran through collection, increment,
\* update, reduction and logging before it is at the top of the loop again.
C9_ExitPolledAtBoundary ==
    \A w \in Workers :
        /\ Count(log[w], "exit_check") <= 1
        /\ pc[w] = "exit" => NoStepInFlight(w) /\ Count(log[w], "exit_check") = 0
        /\ pc[w] \in {"begin", "rollout", "add"} \cup AfterIncrement \cup PreemptPath =>
               Count(log[w], "exit_check") = 1
        /\ pc[w] \in PreemptPath =>
               /\ NoStepInFlight(w)
               /\ Range(log[w]) \cap {"collect", "add", "update", "reduce", "log"} = {}
        /\ (pc[w] = "top" /\ log[w] # <<>>) =>
               SelectSeq(log[w], IsCycleStep) = FullCycle

\* A worker whose flag was raised after the EXIT test of its cycle, inside the
\* cycle, has collected, updated and reduced, and is about to log.
C9_FlagRaisedInsideCycle ==
    \E w \in Workers :
        /\ pc[w] = "log"
        /\ EXIT[w]
        /\ {"exit_check", "collect", "update", "reduce"} \subseteq Range(log[w])

\* C10: if the process dies during a save, neither latest.pth nor a
\* ckpt.<i>.pth file is left partially written.
C10_NoPartialCheckpoint ==
    (\E w \in Workers : pc[w] = "crashed") =>
        /\ latest.st # "partial"
        /\ \A i \in DOMAIN ckpt_files : ckpt_files[i].st # "partial"

\* Positions inside save_checkpoint.
SavePositions == {"save_ckpt", "write_ckpt", "save_latest", "write_latest"}

\* The phases a cycle has gone through so far, in the order they happened.
IsPhase(x) == x \in {"collect", "update", "log", "ckpt"}
Phases(w) == SelectSeq(log[w], IsPhase)
IsPrefix(s, u) == Len(s) <= Len(u) /\ \A i \in DOMAIN s : s[i] = u[i]

C16Step(w) ==
    /\ (pc[w] = "top" /\ pc'[w] = "exit") =>
           /\ num_steps_done[w] < total_num_steps
           /\ num_updates_done[w] < MaxUpdates
    /\ (pc[w] = "update" /\ pc'[w] # "update") =>
           num_updates_done'[w] = num_updates_done[w] + 1
    /\ num_updates_done'[w] # num_updates_done[w] => pc[w] = "update"
    /\ num_steps_done'[w] >= num_steps_done[w]
    /\ pc[w] = "finished" => (pc'[w] = "finished" /\ log'[w] = log[w])

\* C16: a cycle is started only while num_steps_done < total_num_steps and
\* num_updates_done < the update budget; a cycle raises num_updates_done by
\* exactly 1, at its policy update, and never lowers num_steps_done; and
\* without preemption every worker eventually leaves the loop for good, having
\* closed its environments once.
C16_LoopEnds ==
    /\ [][\A w \in Workers : C16Step(w)]_vars
    /\ <>[](\A w \in Workers : pc[w] = "finished" /\ log[w] = <<"close">>)

\* Two workers have left the loop on the step budget, before the update budget
\* was used up.
C16_FinishedOnStepBudget ==
    /\ cfg.world_size = 2
    /\ \A w \in Workers :
           /\ pc[w] = "finished"
           /\ num_updates_done[w] < MaxUpdates
           /\ num_steps_done[w] >= total_num_steps

\* The number of rollouts.insert calls of the given kind that wrote the cell
\* (t, s) in worker w's current rollout.
Writes(w, kind, t, s) ==
    Cardinality({i \in DOMAIN inserts[w] :
                    /\ inserts[w][i].kind = kind
                    /\ inserts[w][i].t = t
                    /\ s \in IF kind = "pre" THEN env_slice(inserts[w][i].half)
                                             ELSE collect_env_slice(inserts[w][i].half)})

\* C17: no cell (t, s) of the rollout buffer is ever written twice by the
\* pre-step insert or twice by the post-step insert, and when a rollout of
\* num_steps steps has ended without cutoff, before the policy update (and its
\* compute_returns) starts, every cell t < num_steps of every slot has exactly
\* one pre-step and exactly one post-step write.
C17_EveryCellWrittenOnce ==
    \A w \in Workers :
        /\ \A i \in DOMAIN inserts[w] : inserts[w][i].t < cfg.num_steps
        /\ \A t \in 0..(cfg.num_steps - 1) : \A s \in Slots :
               /\ Writes(w, "pre", t, s) <= 1
               /\ Writes(w, "post", t, s) <= 1
               /\ (RolloutEnded(w) /\ ~CutShort(w)) =>
                      /\ Writes(w, "pre", t, s) = 1
                      /\ Writes(w, "post", t, s) = 1

\* A double-buffered rollout of MaxNumSteps steps on MaxEnvs slots has run to
\* its end and the policy update is about to start.
C17_FullRolloutAtUpdate ==
    \E w \in Workers :
        /\ pc[w] = "update"
        /\ ~CutShort(w)
        /\ cfg.num_steps = MaxNumSteps
        /\ cfg.num_envs = MaxEnvs
        /\ cfg.nbuffers = 2

\* The positions in inserts[w] of the calls for half b, and the rank of
\* position i among them.
HalfCalls(w, b) == {i \in DOMAIN inserts[w] : inserts[w][i].half = b}
RankInHalf(w, b, i) == Cardinality({j \in HalfCalls(w, b) : j <= i})

\* C18: for each buffer half the inserts of a rollout alternate pre-step,
\* post-step, pre-step, ..., starting with a pre-step insert, and the two
\* inserts of step t come before both inserts of step t + 1: the k-th pair
\* writes step k - 1.
C18_InsertsAlternatePerHalf ==
    \A w \in Workers : \A b \in Halves : \A i \in HalfCalls(w, b) :
        LET k == RankInHalf(w, b, i)
        IN /\ inserts[w][i].kind = IF k % 2 = 1 THEN "pre" ELSE "post"
           /\ inserts[w][i].t = (k - 1) \div 2

\* A double-buffered rollout in its third step: each half has had at least
\* three pre-step and two post-step inserts.
C18_ThirdStepBothHalves ==
    \E w \in Workers :
        /\ pc[w] = "rollout"
        /\ cfg.nbuffers = 2
        /\ \A b \in Halves : Cardinality(HalfCalls(w, b)) >= 5

\* C19: the slot ranges of the buffer halves are pairwise disjoint, together
\* they are exactly the slots 0..num_envs-1, and the range of a half is the
\* same in _compute_actions_and_step_envs and in _collect_environment_result.
C19_HalvesPartitionSlots ==
    /\ \A b \in Halves : env_slice(b) = collect_env_slice(b)
    /\ \A b1 \in Halves : \A b2 \in Halves :
           b1 # b2 => env_slice(b1) \cap env_slice(b2) = {}
    /\ UNION {env_slice(b) : b \in Halves} = 0..(cfg.num_envs - 1)

\* Two halves of unequal size, both submitted and one collected and
\* resubmitted.
C19_UnevenHalvesInUse ==
    \E w \in Workers :
        /\ cfg.nbuffers = 2
        /\ Cardinality(env_slice(0)) # Cardinality(env_slice(1))
        /\ pc[w] = "rollout"
        /\ step[w] >= 1
        /\ \A s \in Slots : inflight[w][s] = 1

\* C20: with two buffer halves, every policy inference of a rollout except the
\* very first one runs while every slot of the other half has a step in
\* flight.
C20_InferenceOverlapsSimulation ==
    \A w \in Workers :
        cfg.nbuffers = 2 =>
            \A i \in DOMAIN inserts[w] :
                (i > 1 /\ inserts[w][i].kind = "pre") =>
                    inserts[w][i].others_in_flight

\* A double-buffered rollout on two or more slots, after inferences for both
\* halves inside the step loop.
C20_PipelinedRollout ==
    \E w \in Workers :
        /\ cfg.nbuffers = 2
        /\ cfg.num_envs >= 2
        /\ pc[w] = "rollout"
        /\ Len(inserts[w]) >= 6
        /\ ~inserts[w][1].others_in_flight

\* Positions of the single process at a cycle boundary: the loop condition,
\* the save of the resume record and the EXIT poll.
BoundaryPositions == {"top", "exit", "cycle"}

\* The restarted train() has put the record back and has not begun a cycle.
JustRestored == pc[0] = "top" /\ log[0] = <<"restore">>

\* C11: every resume record is a snapshot in which num_updates_done is the
\* number of policy updates the saved policy and optimizer state reflect and
\* num_steps_done is the number of transitions those updates consumed; and at
\* every cycle boundary of a run, resumed or not, the counters agree in the
\* same way with the state of the agent, so that no transition is counted
\* without having been consumed or consumed without being counted.
C11_RecordIsBoundarySnapshot ==
    /\ resume_file.st = "complete" =>
           /\ resume_file.requeue_stats.num_updates_done
                  = resume_file.state_dict.updates
           /\ resume_file.requeue_stats.num_steps_done
                  = resume_file.state_dict.consumed
    /\ pc[0] \in BoundaryPositions =>
           /\ num_updates_done[0] = agent.updates
           /\ num_steps_done[0] = agent.consumed

\* A restarted run has resumed from a record taken after at least one update.
C11_ResumedAfterAnUpdate ==
    /\ JustRestored
    /\ restarts >= 1
    /\ agent.updates >= 1
    /\ agent.consumed >= 1

\* C12: when a restarted train() has restored a record, before its first
\* cycle, num_steps_done, num_updates_done, env_time, pth_time,
\* _last_checkpoint_percent, count_checkpoints, prev_time,
\* running_episode_stats and window_episode_stats hold exactly the saved
\* values, and the entries of a saved requeue_stats are exactly the entries
\* that are restored.
C12_RestoredEqualsSaved ==
    /\ resume_file.st = "complete" =>
           DOMAIN resume_file.requeue_stats = restored_fields
    /\ JustRestored =>
           /\ resume_state # None
           /\ DOMAIN resume_state.requeue_stats = restored_fields
           /\ resume_state.requeue_stats =
                  [env_time |-> env_time,
                   pth_time |-> pth_time,
                   count_checkpoints |-> count_checkpoints,
                   num_steps_done |-> num_steps_done[0],
                   num_updates_done |-> num_updates_done[0],
                   _last_checkpoint_percent |-> _last_checkpoint_percent,
                   prev_time |-> prev_time,
                   running_episode_stats |-> running_episode_stats,
                   window_episode_stats |-> window_episode_stats]

\* A record in which every entry differs from the value a new trainer starts
\* with has been restored.
C12_RestoredNonDefaults ==
    /\ JustRestored
    /\ num_steps_done[0] >= 1
    /\ num_updates_done[0] >= 1
    /\ env_time >= 1
    /\ pth_time >= 1
    /\ _last_checkpoint_percent >= 1
    /\ count_checkpoints >= 1
    /\ prev_time >= 1
    /\ running_episode_stats >= 1
    /\ window_episode_stats # <<>>

\* What C13 asks of every step of the process.
C13Step ==
    /\ (pc[0] = "top" /\ pc'[0] = "exit" /\ log'[0] = <<"save">>) =>
           /\ resume_file'.requeue_stats.prev_time
                  = (now - t_start) + prev_time
           /\ resume_file.st = "complete" =>
                  resume_file'.requeue_stats.prev_time
                      >= resume_file.requeue_stats.prev_time
    /\ pc[0] \in BoundaryPositions =>
           prev_time = IF resume_state # None
                       THEN resume_state.requeue_stats.prev_time
                       ELSE 0

\* C13: the prev_time a save stores is the time elapsed in the current segment
\* up to the save plus the prev_time the segment restored at its start (0 in
\* a segment that did not resume), so the stored total carries the earlier
\* segments forward: it is not reset to 0 by a restart and a later record never
\* holds less than the record before it.
C13_PrevTimeAccumulates == [][C13Step]_vars

\* A resumed segment has saved a record after time went by in both segments.
C13_SavedInSecondSegment ==
    /\ pc[0] = "exit"
    /\ log[0] = <<"save">>
    /\ restarts >= 1
    /\ prev_time >= 1
    /\ resume_file.requeue_stats.prev_time > prev_time

\* C14: a train() invocation that has got past its start-up has called
\* load_resume_state exactly once, whether or not a record exists.
C14_OneLoadPerTrain ==
    /\ pc[0] # "init" => loads >= 1
    /\ loads <= 1

\* The sum f[0] + ... + f[n-1].
RECURSIVE SumTo(_, _)
SumTo(f, n) == IF n = 0 THEN 0 ELSE f[n - 1] + SumTo(f, n - 1)

\* Positions of a worker of Spec between two cycles.
CycleBoundary == {"top", "exit", "begin"}

\* C21: in distributed mode, at every cycle boundary a worker's num_steps_done
\* is the sum, over the cycles it has completed, of the steps all workers
\* collected in the cycle (the all-reduced count_steps_delta, not divided by
\* the world size), and any two workers at a cycle boundary hold the same
\* num_updates_done and the same num_steps_done.
C21_SameStepsOnEveryWorker ==
    (cfg.world_size > 1 \/ cfg.force_distributed) =>
        \A w \in Workers :
            pc[w] \in CycleBoundary =>
                /\ num_steps_done[w] = SumTo(collected, num_updates_done[w])
                /\ \A v \in Workers :
                       pc[v] \in CycleBoundary =>
                           /\ num_updates_done[v] = num_updates_done[w]
                           /\ num_steps_done[v] = num_steps_done[w]

\* Two workers are between cycles after a cycle in which one of them was cut
\* short: they collected different numbers of steps.
C21_BoundaryAfterUnevenCycle ==
    /\ cfg.world_size = 2
    /\ \A w \in Workers : pc[w] = "top" /\ num_updates_done[w] = 1
    /\ collected[0] < 2 * cfg.num_envs * cfg.num_steps
    /\ collected[0] > 0

\* C22: in a run that is not distributed the shared counter is never
\* incremented, reset or read, no rollout is ended before num_steps, and a
\* finished rollout has count_steps_delta = num_steps * num_envs.
C22_NoCutoffWhenNotDistributed ==
    (cfg.world_size = 1 /\ ~cfg.force_distributed) =>
        /\ num_done = 0
        /\ \A k \in DOMAIN contrib : contrib[k] = 0
        /\ \A w \in Workers :
               /\ last_read[w] = 0
               /\ "add" \notin Range(log[w])
               /\ ~CutShort(w)
               /\ RolloutEnded(w) =>
                      count_steps_delta[w] = cfg.num_steps * cfg.num_envs

\* A single process that is not distributed has finished a rollout of
\* MaxNumSteps steps in its second cycle.
C22_SecondFullRollout ==
    /\ cfg.world_size = 1
    /\ ~cfg.force_distributed
    /\ cfg.num_steps = MaxNumSteps
    /\ pc[0] = "update"
    /\ num_updates_done[0] = 1
    /\ count_steps_delta[0] = MaxNumSteps * cfg.num_envs

Min(a, b) == IF a <= b THEN a ELSE b

\* C27: a run applies in the cycle it is about to make the clip parameter
\* clip_param * (1 - num_steps_done / total_num_steps) and, from its second
\* cycle on, the learning-rate factor 1 - s / total_num_steps, where s is
\* num_steps_done as it was before the previous cycle was counted; both are
\* functions of num_steps_done and num_updates_done alone, so a resumed run and
\* an uninterrupted run apply the same in the cycle with the same counters.
C27_DecayFollowsCounters ==
    pc[0] = "cycle" =>
        /\ clip_param = total_num_steps - num_steps_done[0]
        /\ lr = IF num_updates_done[0] = 0
                THEN total_num_steps
                ELSE total_num_steps - (num_steps_done[0] - RolloutSize)

\* A resumed run is about to make its second cycle since the resume, with a
\* learning rate and a clip parameter that have both decayed.
C27_DecayedAfterResume ==
    /\ pc[0] = "cycle"
    /\ restarts >= 1
    /\ resume_state # None
    /\ num_updates_done[0] > resume_state.requeue_stats.num_updates_done
    /\ lr < total_num_steps
    /\ clip_param < lr

\* What C30 asks of every step of the process.
C30Step ==
    /\ (pc[0] = "post" /\ pc'[0] = "log") =>
           LET a == Append(window_episode_stats, running_episode_stats)
               n == Min(Len(a), reward_window_size)
           IN window_episode_stats' = SubSeq(a, Len(a) - n + 1, Len(a))
    /\ (pc[0] = "inited" /\ pc'[0] = "top" /\ resume_state # None) =>
           window_episode_stats'
               = resume_state.requeue_stats.window_episode_stats
    /\ (window_episode_stats' # window_episode_stats) =>
           \/ pc[0] = "post"
           \/ pc[0] = "inited" /\ resume_state # None
           \/ window_episode_stats' = <<>> /\ pc'[0] \in {"init", "inited"}

\* C30: window_episode_stats never holds more than reward_window_size entries;
\* each update appends exactly one entry, the running statistics, and the
\* window then holds the last min(length, reward_window_size) entries in the
\* order they were appended; nothing else changes the window except the
\* restore, which puts back the saved window; at every cycle boundary, also
\* of a resumed run, the window holds min(num_updates_done,
\* reward_window_size) entries.
C30_WindowIsBounded ==
    /\ [](/\ Len(window_episode_stats) <= reward_window_size
          /\ pc[0] \in BoundaryPositions =>
                 Len(window_episode_stats)
                     = Min(num_updates_done[0], reward_window_size))
    /\ [][C30Step]_vars

\* A resumed run has made more updates than the window holds: its oldest entry
\* has been evicted.
C30_EvictedAfterResume ==
    /\ pc[0] = "top"
    /\ restarts >= 1
    /\ resume_state # None
    /\ num_updates_done[0] > reward_window_size
    /\ Len(window_episode_stats) = reward_window_size
    /\ window_episode_stats[1] # window_episode_stats[2]

\* ------------------------------------------------- BufferSpec properties
\* An update has just been applied: the returns of the finished rollout, its
\* rewards and its masks from step 1 on are still in the storage.
JustUpdated == pc[0] \in {"begin", "finished"} /\ num_updates_done[0] > 0

\* The storage with everything after step t changed: the rewards and value
\* estimates of the later steps raised by d, the masks after step t + 1
\* inverted when flip.
Perturbed(bufs, t, d, flip) ==
    [bufs EXCEPT
        !.rewards = [u \in Steps |->
                        IF u > t THEN [s \in Slots |-> @[u][s] + d] ELSE @[u]],
        !.value_preds = [u \in Steps |->
                        IF u > t THEN [s \in Slots |-> @[u][s] + d] ELSE @[u]],
        !.masks = [u \in Steps |->
                        IF u > t + 1 /\ flip THEN [s \in Slots |-> ~@[u][s]]
                                             ELSE @[u]]]

\* C23: where mask[t+1] of a slot is 0, the return the update computed for
\* step t is the reward of step t alone (so the GAE advantage is reward[t] -
\* value[t]), and computing the returns again with other rewards, values and
\* masks at the later steps and another bootstrap value gives the same
\* return for step t.
C23_ReturnsStopAtEpisodeEnd ==
    JustUpdated =>
        \A s \in Slots : \A t \in 0..(cfg.num_steps - 1) :
            ~buffers.masks[t + 1][s] =>
                /\ buffers.returns[t][s] = buffers.rewards[t][s]
                /\ \A d \in 1..2 : \A flip \in BOOLEAN :
                      compute_returns(Perturbed(buffers, t, d, flip), cfg.num_steps,
                                      [x \in Slots |-> d], use_gae).returns[t][s]
                          = buffers.returns[t][s]

\* An update used a rollout in which an episode ended before the last step,
\* in a slot whose later steps earned rewards.
C23_EpisodeEndedInsideRollout ==
    /\ JustUpdated
    /\ \E s \in Slots : \E t \in 0..(cfg.num_steps - 1) :
          /\ t + 1 < cfg.num_steps
          /\ ~buffers.masks[t + 1][s]
          /\ buffers.masks[t + 2][s]
          /\ buffers.returns[t + 1][s] > buffers.rewards[t + 1][s]

\* C24: the update leaves, as step 0 of the next rollout, the observation,
\* mask and recurrent state last recorded by the finished one, and every
\* half's step index at 0; rotating once more changes nothing.
C24Step ==
    (pc[0] = "update" /\ pc'[0] = "begin") =>
        LET T == step_idxs[0][0]
        IN /\ buffers'.observations[0] = buffers.observations[T]
           /\ buffers'.masks[0] = buffers.masks[T]
           /\ buffers'.recurrent_hidden_states[0]
                  = buffers.recurrent_hidden_states[T]
           /\ \A b \in Halves : step_idxs'[0][b] = 0
           /\ rotate(buffers', step_idxs'[0][0]) = buffers'

C24_RotatedNotCleared == [][C24Step]_vars

\* After an update step 0 holds what the rollout recorded last: an
\* observation inside an episode in one slot, the start of one in another.
C24_Step0CarriedOver ==
    /\ JustUpdated
    /\ pc[0] = "begin"
    /\ \E s \in Slots : /\ buffers.masks[0][s]
                        /\ buffers.observations[0][s][2] > 0
                        /\ buffers.recurrent_hidden_states[0][s] > 1
    /\ \E s \in Slots : ~buffers.masks[0][s]

\* The half that slot s belongs to.
HalfOf(s) == CHOOSE b \in Halves : s \in collect_env_slice(b)

\* C25, the steps: a rollout step stores, for every slot, at the step after
\* the current one, a mask that is 0 exactly when the env reported done, and
\* changes no other mask; the update copies the last masks to step 0; no
\* other step changes a mask.
C25Step ==
    IF pc[0] = "rollout"
    THEN \A s \in Slots : \A t \in Steps :
            buffers'.masks[t][s] =
                IF t = step_idxs[0][HalfOf(s)] + 1
                THEN ~env_step(env_state[s]).done
                ELSE buffers.masks[t][s]
    ELSE IF pc[0] = "update"
    THEN \A s \in Slots : \A t \in Steps :
            buffers'.masks[t][s] =
                buffers.masks[IF t = 0 THEN step_idxs[0][0] ELSE t][s]
    ELSE buffers'.masks = buffers.masks

\* C25, the rollout: among the steps collected so far a mask is 0 exactly
\* where the observation stored with it is the first of a new episode.
C25_MasksOfRollout ==
    pc[0] \in {"rollout", "update"} =>
        \A s \in Slots : \A t \in 1..step_idxs[0][HalfOf(s)] :
            ~buffers.masks[t][s] <=> buffers.observations[t][s][2] = 0

C25_MaskIsNotDone == []C25_MasksOfRollout /\ [][C25Step]_vars

\* A collected rollout with both kinds of mask in one slot.
C25_BothMasksInARollout ==
    /\ pc[0] = "update"
    /\ \E s \in Slots : \E t, u \in 1..cfg.num_steps :
          ~buffers.masks[t][s] /\ buffers.masks[u][s]

\* C26, the step: after a rollout step every slot's accumulated reward is 0
\* if the step ended its episode and the previous value plus the reward of
\* the step otherwise; the running reward takes the whole reward of an ended
\* episode and the running count one, for the ended slots only.
C26Step ==
    pc[0] = "rollout" =>
        \A s \in Slots :
            LET out == env_step(env_state[s])
                whole == current_episode_reward[s] + out.reward
            IN /\ current_episode_reward'[s] = IF out.done THEN 0 ELSE whole
               /\ episode_stats'.reward[s] =
                      episode_stats.reward[s] + (IF out.done THEN whole ELSE 0)
               /\ episode_stats'.count[s] =
                      episode_stats.count[s] + (IF out.done THEN 1 ELSE 0)

\* C26, the halves: collecting one half leaves the accumulators and the
\* statistics of every slot outside it as they are.
C26_OtherHalfUntouched ==
    pc[0] = "rollout" =>
        \A b \in Halves :
            LET r == collect_and_insert(Storage, b)
            IN \A s \in Slots \ collect_env_slice(b) :
                  /\ r.reward[s] = current_episode_reward[s]
                  /\ r.stats.reward[s] = episode_stats.reward[s]
                  /\ r.stats.count[s] = episode_stats.count[s]

C26_EpisodeRewardAccounting == []C26_OtherHalfUntouched /\ [][C26Step]_vars

\* Two halves of one slot each; one slot has finished an episode with a
\* reward of more than one step and is inside its next one, the other has
\* just ended an episode.
C26_EndedAndRunningEpisodes ==
    /\ cfg.nbuffers = 2
    /\ cfg.num_envs = 2
    /\ \E s \in Slots : /\ episode_stats.count[s] >= 1
                        /\ episode_stats.reward[s] > MaxEpisodeLen
                        /\ current_episode_reward[s] > 0
    /\ \E s \in Slots : /\ episode_stats.count[s] >= 1
                        /\ current_episode_reward[s] = 0

\* --------------------------------------------------- EvalSpec properties
\* C28: an evaluation that raised an error had done nothing before it: no
\* checkpoint loaded, no env pool constructed or reset, no step taken.
C28_ErrorsRaisedBeforeSetup ==
    eval_pc = "raised" => Len(eval_trace) = 1

\* The slots of S before position i.
Below(S, i) == Cardinality({k \in S : k < i})

\* new is old without the positions of S: as many entries fewer, every
\* other entry moved down by the number of removed positions before it.
Compacted(new, old, S) ==
    /\ Len(new) = Len(old) - Cardinality(S)
    /\ \A i \in DOMAIN old \ S : new[i - Below(S, i)] = old[i]

\* C29: pausing the slots of envs_to_pause leaves the other slots, in their
\* order and without gaps, and each of their per-slot states (env, hidden
\* state, previous action, not-done mask, episode reward, observation,
\* frames) at its new position is what it was at the old one.
C29Step ==
    eval_pc = "pause" =>
        /\ Compacted(envs', envs, envs_to_pause)
        /\ Compacted(test_recurrent_hidden_states', test_recurrent_hidden_states,
                     envs_to_pause)
        /\ Compacted(prev_actions', prev_actions, envs_to_pause)
        /\ Compacted(not_done_masks', not_done_masks, envs_to_pause)
        /\ Compacted(eval_episode_reward', eval_episode_reward, envs_to_pause)
        /\ Compacted(batch', batch, envs_to_pause)
        /\ Compacted(rgb_frames', rgb_frames, envs_to_pause)

NoSaveUnderWay == \A w \in Workers : pc[w] \notin SavePositions \cup {"crashed"}

C31_LatestIsLastWritten ==
    (NoSaveUnderWay /\ count_checkpoints > 0) =>
        /\ latest.st = "complete"
        /\ latest = ckpt_files[count_checkpoints - 1]

C31Step ==
    (ckpt_files' # ckpt_files \/ latest' # latest) =>
        /\ pc[0] \in SavePositions
        /\ pc'[0] # pc[0]
        /\ \A w \in Workers \ {0} : pc'[w] = pc[w]

AllInAllReduce ==
    /\ \A w \in Workers : pc[w] \in {"ar_stats", "ar_loss"}
    /\ \A w \in Workers : num_updates_done[w] = num_updates_done[0]

\* C32: num_done never exceeds the world size, holds the world size when
\* every worker has entered the all-reduce of a cycle, and rank 0's reset
\* erases no increment of the cycle after the one it closes.
C32_ResetNeverRacesIncrement ==
    _is_distributed =>
        /\ num_done <= cfg.world_size
        /\ AllInAllReduce => num_done = cfg.world_size
        /\ pc[0] = "post" =>
              \A k \in DOMAIN contrib : k >= num_updates_done[0] => contrib[k] = 0

\* ---------------------------------------------------- collectives, C33
Collectives == {"barrier", "ar_stats", "ar_loss"}

\* C33: no worker is inside a collective that a peer which has left the
\* loop by the preemption exit never entered.
C33_NoWaitForDepartedPeer ==
    \A w, v \in Workers :
        (pc[w] \in Collectives /\ pc[v] = "returned") => arrived[v] >= arrived[w]

\* ------------------------------------------------ prompt cutoff, C34
\* C34: a per-step check of a distributed worker that has collected at least
\* the threshold fraction of its rollout, made while num_done has reached
\* sync_frac * world_size, ends the rollout: the step in flight is collected,
\* no further action is submitted, the loop is left.
C34Step ==
    \A w \in Workers :
        (/\ _is_distributed
         /\ pc[w] = "rollout"
         /\ pc'[w] # "rollout" \/ step'[w] # step[w]
         /\ step[w] * ThresholdDen >= cfg.num_steps * ThresholdNum
         /\ num_done * cfg.sync_frac[2] >= cfg.sync_frac[1] * cfg.world_size)
        => /\ pc'[w] = "add"
           /\ step'[w] = step[w]
           /\ n_async'[w] = n_async[w]
           /\ \A s \in Slots : /\ n_wait'[w][s] = n_wait[w][s] + 1
                               /\ inflight'[w][s] = 0

C34_CutoffIsPrompt == [][C34Step]_vars

\* A worker of a long rollout was cut at the first check after it had
\* collected the threshold fraction, the other worker having finished.
C34_CutAtFirstCheckPastThreshold ==
    \E w \in Workers :
        /\ pc[w] = "add"
        /\ cfg.num_steps = MaxNumSteps
        /\ cfg.sync_frac = <<1, 2>>
        /\ step[w] + 1 < cfg.num_steps
        /\ step[w] >= 1
        /\ (step[w] - 1) * ThresholdDen < cfg.num_steps * ThresholdNum
        /\ last_read[w] = 1

\* ------------------------------------------------- step indices, C35
\* C35, the calls: from any state of a rollout, _collect_environment_result(b)
\* moves the step index of half b by one and no other, and
\* _compute_actions_and_step_envs(b) moves none.
C35_CallsOnStepIndices ==
    \A w \in Workers :
        pc[w] = "rollout" =>
            \A b \in Halves :
                LET c == _collect_environment_result(Rollout(w), b)
                    a == _compute_actions_and_step_envs(c, b)
                IN /\ c.idxs[b] = step_idxs[w][b] + 1
                   /\ \A x \in Halves \ {b} : c.idxs[x] = step_idxs[w][x]
                   /\ a.idxs = c.idxs

\* C35, the loop: a step of the rollout loop, which collects every half
\* once, moves every half's step index by one.
C35Step ==
    \A w \in Workers :
        (pc[w] = "rollout" /\ inserts'[w] # inserts[w]) =>
            \A b \in Halves : step_idxs'[w][b] = step_idxs[w][b] + 1

C36_SchedulesAgree ==
    pc[0] = "cycle" =>
        /\ clip_param = total_num_steps - num_steps_done[0]
        /\ lr = total_num_steps - num_steps_done[0]

\* ---- C37 ----
\* C37: evaluation de-duplicates: no (scene_id, episode_id) is recorded in
\* stats_episodes more than evals_per_ep times, and no episode is counted
\* beyond that budget, whatever the number of slots and the assignment of
\* episodes to them.
C37_NoEpisodeBeyondBudget ==
    /\ \A s \in stats_episodes : s[2] <= evals_per_ep
    /\ \A k \in DOMAIN ep_eval_count : ep_eval_count[k] <= evals_per_ep

\* ---- C38 ----
\* The identifiers statistics have been recorded for.
RecordedEpisodes == {s[1] : s \in stats_episodes}

\* C38: when _eval_checkpoint has passed its final assertion, statistics have
\* been recorded for at least number_of_eval_episodes distinct identifiers;
\* an identifier that was only looked up for the pause decision does not let
\* the assertion pass.
C38_AssertionMeansRecorded ==
    eval_pc = "closed" =>
        Cardinality(RecordedEpisodes) >= number_of_eval_episodes

\* ---- C39 ----
\* The scalar-like leaves of the dictionary d that are no strings and are
\* reached through string keys only, as <<dot-joined key path, number>>,
\* without those below or at a key path of the set barred.
RECURSIVE ScalarLeaves(_, _, _)
ScalarLeaves(d, prefix, barred) ==
    UNION {
        LET path == IF prefix = "" THEN d[i].k.name
                    ELSE prefix \o "." \o d[i].k.name
        IN  IF ~d[i].k.is_str \/ path \in barred THEN {}
            ELSE IF d[i].v.type = "dict"
                 THEN ScalarLeaves(d[i].v.items, path, barred)
            ELSE IF d[i].v.size = 1 /\ d[i].v.type # "str"
                 THEN {<<path, d[i].v.val>>}
            ELSE {}
        : i \in DOMAIN d}

\* C39: _extract_scalars_from_info returns exactly the scalar-like leaves
\* that are no strings, keyed by their dot-joined key path, skipping the
\* entries with non-string keys: no key of the result is in
\* METRICS_BLACKLIST, every entry of the result is such a leaf, and every
\* such leaf that is not at or below a blacklisted key path is in the result.
C39_ExactlyTheScalarLeaves ==
    extract_pc = "returned" =>
        /\ DOMAIN result \cap METRICS_BLACKLIST = {}
        /\ \A x \in DOMAIN result : <<x, result[x]>> \in ScalarLeaves(info, "", {})
        /\ \A l \in ScalarLeaves(info, "", METRICS_BLACKLIST) :
                l[1] \in DOMAIN result /\ result[l[1]] = l[2]

\* ---- C40 ----
\* The events ev of the run so far.
Events(evs) == {i \in DOMAIN run_trace : run_trace[i].ev \in evs}

\* C40: execute_exp validates the trainer name eagerly.  A run whose
\* trainer_name is not registered ends in get_trainer's assertion, with an
\* error that names the trainer, and constructs no trainer and calls neither
\* train() nor eval(); a run with a registered name constructs at most one
\* trainer, calls train() or eval() only after that, and when it is done it
\* has constructed one trainer and made exactly one call, the one of its
\* run_type.
C40_TrainerNameCheckedFirst ==
    /\ config.trainer_name \notin RegisteredTrainers =>
            /\ Events({"construct", "train", "eval"}) = {}
            /\ run_pc \notin {"construct", "dispatch", "done"}
            /\ run_pc = "raised" =>
                    run_trace[Len(run_trace)] =
                        Event("AssertionError",
                              config.trainer_name \o " is not supported")
    /\ Cardinality(Events({"construct"})) <= 1
    /\ \A i \in Events({"train", "eval"}) : \E j \in Events({"construct"}) : j < i
    /\ run_pc = "done" =>
            /\ Cardinality(Events({"construct"})) = 1
            /\ Cardinality(Events({"train", "eval"})) = 1
            /\ Events({argv.run_type}) # {}

\* An unregistered trainer name has been refused.
C40_UnregisteredNameRefused ==
    /\ run_pc = "raised"
    /\ config.trainer_name \notin RegisteredTrainers
    /\ Events({"AssertionError"}) # {}
====
